---- MODULE Spec2Model ----
(***************************************************************************)
(* Model of the iPhone media backup tool: the transfer engine              *)
(* (PhotoTransferManager), the device link it relies on (DeviceManager),   *)
(* the progress subscriber of the main window, and the year/month          *)
(* selection tree (PhotoTreeView) over the aggregated inventory            *)
(* (PhotoAnalyzer.analyze_photos).                                         *)
(***************************************************************************)
EXTENDS Integers, Sequences, FiniteSets, TLC

\* ------------------------------------------------------------------ bounds
MaxPhotos == 3      \* largest number of photos handed to one transfer task
MaxBatch  == 2      \* largest batch size tried
MaxTasks  == 1      \* number of transfer tasks started in one behaviour
MaxAssets == 3      \* longest scanned asset sequence that is aggregated
MaxYear   == 2      \* years are 1..MaxYear
MaxMonth  == 2      \* months are 1..MaxMonth
MaxExport == 2      \* files found by a scan that is followed by an export
MaxAgain  == 2      \* tasks started one after the other

\* ------------------------------------------------------- program constants
BATCH_SIZE         == 10
RECONNECT_ATTEMPTS == 3

NoBatchSize == -1                       \* batch_size = None
Terminal    == {"completed", "failed", "cancelled"}
TaskIds     == 1..MaxTasks
BatchSizes  == 1..MaxBatch
Years       == 1..MaxYear
Months      == 1..MaxMonth
Sizes       == {1, 2}

VARIABLES
    \* PhotoTransferManager
    is_cancelled,       \* self._is_cancelled
    current_progress,   \* self._current_progress: 0 is None, else the id of a TransferProgress object
    heap,               \* the TransferProgress objects, by id
    task,               \* the arguments the worker thread was started with
    last_start,         \* outcome of the last start_transfer call
    \* the worker thread (_transfer_worker / _transfer_photos)
    pc,                 \* position of the worker; "none" no thread yet, "done" thread finished
    idx,                \* 1-based index of the photo the loop is at
    batch_count,        \* batch_count of _transfer_photos
    attempt,            \* attempt of _verify_and_reconnect
    afc,                \* the AfcService of the task: "none", "open", "closed"
    exc,                \* exception propagating out of _transfer_photos, "None" if none
    \* DeviceManager and the device link
    current_device,     \* self._current_device is set
    usbmux,             \* what list_devices() gives now: "listed", "absent", "error"
    \* effects and observations of the current task
    pull_result,        \* per photo index: "none" (not attempted), "ok", "fail"
    rm_issued,          \* indices for which afc.rm was called
    device_files,       \* indices whose source file is still on the device
    local_files,        \* indices written to local storage
    published,          \* the values progress_callback was called with, at call time
    verify_failed,      \* a batch-boundary verify_connection returned False in this task
    cancel_at,          \* completed+failed when cancel was first requested on the running task, -1 if not
    ui_queue,           \* Tk after(0, ...) callbacks not yet run by the main loop
    ui_seen,            \* what progress_panel.update_progress read, in order
    \* PhotoAnalyzer / PhotoTreeView
    all_photos,         \* the photos the last scan found, in scan order
    year_stats,         \* self._year_stats: year -> YearStats
    selected_photos,    \* what get_selected_photos returned to the last _start_export
    last_click,         \* the last click on the tree, with the inventory as it was before it
    health_checks,      \* the photo indices before which _verify_and_reconnect was called in this task
    recovery,           \* what the reconnection loop of the last _verify_and_reconnect call did, in order
    local_store,        \* the export folder: destination path -> the device path whose bytes the file holds
    \* the device file tree and the scan
    fs,                 \* what afc.stat and afc.listdir give for the photo directories
    scan_status,        \* how the last analysis ended: "none", "complete", "error", "not_connected"
    \* the main window
    export_btn,         \* state of the export button: "normal" or "disabled"
    export_stats,       \* settings_manager.stats: the cumulative export statistics
    completions         \* the tasks _on_transfer_complete has run for, in order

tvars == <<is_cancelled, current_progress, heap, task, last_start, pc, idx,
           batch_count, attempt, afc, exc, current_device, usbmux,
           pull_result, rm_issued, device_files, local_files, published,
           verify_failed, cancel_at, ui_queue, ui_seen, health_checks, recovery,
           local_store>>
vars  == <<is_cancelled, current_progress, heap, task, last_start, pc, idx,
           batch_count, attempt, afc, exc, current_device, usbmux,
           pull_result, rm_issued, device_files, local_files, published,
           verify_failed, cancel_at, ui_queue, ui_seen, all_photos, year_stats,
           selected_photos, last_click, health_checks, recovery,
           local_store, fs, scan_status, export_btn, export_stats, completions>>

\* ------------------------------------------------------------------ helpers
Last(s) == s[Len(s)]

PhotoSize(i) == task.photos[i].size     \* photo.size of the i-th photo of the task

RECURSIVE SumSizes(_)
SumSizes(n) == IF n = 0 THEN 0 ELSE PhotoSize(n) + SumSizes(n - 1)

\* TransferProgress(...) as constructed by the worker
NewProgress(n) ==
    [total_files |-> n, completed_files |-> 0, failed_files |-> 0,
     total_size |-> SumSizes(n), transferred_size |-> 0,
     status |-> "in_progress", error_message |-> "None"]

\* what an observer reads from a TransferProgress object
Snapshot(t) ==
    [task |-> t, completed_files |-> heap[t].completed_files,
     failed_files |-> heap[t].failed_files, status |-> heap[t].status]

\* Thread.is_alive() of self._transfer_thread
is_alive == pc \notin {"none", "done"}

\* PhotoTransferManager.is_transfer_active
is_transfer_active == pc # "none" /\ is_alive

\* PhotoTransferManager.get_current_progress
get_current_progress == current_progress

\* Mutant: is_connected answers from the selection alone, the device list unread.
is_connected_ListUnread == current_device

\* DeviceManager.is_connected
is_connected == current_device /\ usbmux = "listed"

\* DeviceManager.verify_connection (the boolean of the pair)
verify_connection == current_device /\ is_connected

effective_batch_size(b) == IF b # NoBatchSize THEN b ELSE BATCH_SIZE

\* ------------------------------------------------- PhotoAnalyzer inventory
\* A scanned photo: its path on the device, the year and month of its creation
\* date, and its size.
Assets == [path : 1..MaxAssets, year : Years, month : Months, size : Sizes]

RECURSIVE SumSize(_)
SumSize(photos) ==
    IF photos = <<>> THEN 0 ELSE Head(photos).size + SumSize(Tail(photos))

\* The keys of a dict in insertion order, for the sequence of keys inserted.
RECURSIVE DictKeys(_)
DictKeys(ks) ==
    IF ks = <<>> THEN <<>>
    ELSE LET r == DictKeys(SubSeq(ks, 1, Len(ks) - 1))
             k == ks[Len(ks)]
         IN  IF \E i \in 1..Len(r) : r[i] = k THEN r ELSE Append(r, k)

\* Mutant: the photos are grouped by month alone.
PhotosOf_ByMonthOnly(all, y, m) == SelectSeq(all, LAMBDA p : p.month = m)

\* Mutant: only runs of consecutive photos are grouped, and a later run of a
\* month replaces the earlier one.
PhotosOf_LastRun(all, y, m) ==
    LET at == {i \in 1..Len(all) : all[i].year = y /\ all[i].month = m}
    IN  IF at = {} THEN <<>>
        ELSE LET hi == CHOOSE i \in at : \A j \in at : j <= i
                 lo == CHOOSE i \in at :
                          /\ \A j \in i..hi : j \in at
                          /\ \A k \in at : (\A j \in k..hi : j \in at) => i <= k
             IN  SubSeq(all, lo, hi)

\* photos_by_year_month[y][m] after the loop of lines 50-60
PhotosOf(all, y, m) == SelectSeq(all, LAMBDA p : p.year = y /\ p.month = m)

YearKeys(all) == DictKeys([i \in 1..Len(all) |-> all[i].year])

MonthKeys(all, y) ==
    LET ofYear == SelectSeq(all, LAMBDA p : p.year = y)
    IN  DictKeys([i \in 1..Len(ofYear) |-> ofYear[i].month])

\* MonthStats(...) of lines 67-73
NewMonthStats(all, y, m) ==
    [year |-> y, month |-> m, photo_count |-> Len(PhotosOf(all, y, m)),
     total_size |-> SumSize(PhotosOf(all, y, m)), photos |-> PhotosOf(all, y, m),
     selected |-> FALSE]

\* YearStats(year=year)
NewYearStats(y) ==
    [year |-> y, photo_count |-> 0, total_size |-> 0,
     months |-> [m \in {} |-> 0], selected |-> FALSE]

\* Mutant: add_month counts the photos of the month and forgets their size.
add_month_CountOnly(year_stat, month_stat) ==
    [year_stat EXCEPT !.months = (month_stat.month :> month_stat) @@ @,
                      !.photo_count = @ + month_stat.photo_count]

\* YearStats.add_month
add_month(year_stat, month_stat) ==
    [year_stat EXCEPT !.months = (month_stat.month :> month_stat) @@ @,
                      !.photo_count = @ + month_stat.photo_count,
                      !.total_size = @ + month_stat.total_size]

\* the inner loop of lines 66-74 over the months in ms
RECURSIVE AddMonths(_, _, _)
AddMonths(all, year_stat, ms) ==
    IF ms = <<>> THEN year_stat
    ELSE AddMonths(all, add_month(year_stat, NewMonthStats(all, year_stat.year, Head(ms))),
                   Tail(ms))

\* PhotoAnalyzer.analyze_photos on the photos found
analyze_photos(all) ==
    LET ys == YearKeys(all)
    IN  [y \in {ys[i] : i \in 1..Len(ys)} |->
            AddMonths(all, NewYearStats(y), MonthKeys(all, y))]

\* Mutant: the new inventory keeps the marks of the years it had before.
AnalysisResult_KeepMarks(previous, found) ==
    LET new == analyze_photos(found)
    IN  [y \in DOMAIN new |->
            IF y \in DOMAIN previous /\ previous[y].selected
            THEN [new[y] EXCEPT !.selected = TRUE] ELSE new[y]]

\* self._year_stats = self.photo_analyzer.analyze_photos(...): the inventory
\* the window had is dropped for the one built from the photos found.
AnalysisResult(previous, found) == analyze_photos(found)

\* all(m.selected for m in year_stat.months.values())
AllMonthsSelected(year_stat) ==
    \A m \in DOMAIN year_stat.months : year_stat.months[m].selected

\* The values of a dict, in the order of its keys ks.
RECURSIVE Values(_, _)
Values(d, ks) ==
    IF ks = <<>> THEN <<>> ELSE <<d[Head(ks)]>> \o Values(d, Tail(ks))

\* Mutant: in a year that is not marked, the walk stops at the first selected month.
RECURSIVE ExtendMonths_BreakAfterFirst(_, _)
ExtendMonths_BreakAfterFirst(month_stats, only_selected) ==
    IF month_stats = <<>> THEN <<>>
    ELSE IF ~only_selected
         THEN Head(month_stats).photos
              \o ExtendMonths_BreakAfterFirst(Tail(month_stats), only_selected)
         ELSE IF Head(month_stats).selected THEN Head(month_stats).photos
              ELSE ExtendMonths_BreakAfterFirst(Tail(month_stats), only_selected)

\* selected_photos.extend(month_stat.photos) over the months of a year, all of
\* them or those marked selected
RECURSIVE ExtendMonths(_, _)
ExtendMonths(month_stats, only_selected) ==
    IF month_stats = <<>> THEN <<>>
    ELSE (IF ~only_selected \/ Head(month_stats).selected
          THEN Head(month_stats).photos ELSE <<>>)
         \o ExtendMonths(Tail(month_stats), only_selected)

\* the loop of get_selected_photos over year_stats.values()
RECURSIVE ExtendYears(_, _)
ExtendYears(year_stat_seq, all) ==
    IF year_stat_seq = <<>> THEN <<>>
    ELSE LET year_stat == Head(year_stat_seq)
             month_stats == Values(year_stat.months, MonthKeys(all, year_stat.year))
         IN  ExtendMonths(month_stats, ~year_stat.selected)
             \o ExtendYears(Tail(year_stat_seq), all)

\* Mutant: every year is handled as a selected year, its months' flags unread.
get_selected_photos_YearBranchOnly(stats, all) ==
    LET marked == [y \in DOMAIN stats |-> [stats[y] EXCEPT !.selected = TRUE]]
    IN  ExtendYears(Values(marked, YearKeys(all)), all)

\* PhotoAnalyzer.get_selected_photos on the inventory built from the photos
\* all: the dicts are walked in insertion order, which is that of all.
get_selected_photos(stats, all) == ExtendYears(Values(stats, YearKeys(all)), all)

\* Mutant: the year click passes its value on to the months only when selecting.
toggle_year_SelectOnly(stats, y) ==
    LET sel == ~stats[y].selected
    IN  [stats EXCEPT ![y].selected = sel,
                      ![y].months = [m \in DOMAIN stats[y].months |->
                                        [stats[y].months[m] EXCEPT !.selected = sel \/ @]]]

\* Mutant: the year click negates each month's own flag.
toggle_year_FlipMonths(stats, y) ==
    [stats EXCEPT ![y].selected = ~stats[y].selected,
                  ![y].months = [m \in DOMAIN stats[y].months |->
                                    [stats[y].months[m] EXCEPT !.selected = ~@]]]

\* PhotoTreeView._toggle_year on the item of year y
toggle_year(stats, y) ==
    LET sel == ~stats[y].selected
    IN  [stats EXCEPT ![y].selected = sel,
                      ![y].months = [m \in DOMAIN stats[y].months |->
                                        [stats[y].months[m] EXCEPT !.selected = sel]]]

\* Mutant: a month being selected deselects the other months of its year.
toggle_month_Exclusive(stats, y, m) ==
    LET sel == ~stats[y].months[m].selected
        flipped == [stats EXCEPT ![y].months =
                       [k \in DOMAIN stats[y].months |->
                           [stats[y].months[k] EXCEPT !.selected =
                               IF k = m THEN sel ELSE (IF sel THEN FALSE ELSE @)]]]
    IN  [flipped EXCEPT ![y].selected = AllMonthsSelected(flipped[y])]

\* Mutant: the month is flipped and the flag of its year is left as it was.
toggle_month_NoRecompute(stats, y, m) ==
    [stats EXCEPT ![y].months[m].selected = ~stats[y].months[m].selected]

\* PhotoTreeView._toggle_month on the item of month m of year y
toggle_month(stats, y, m) ==
    LET flipped == [stats EXCEPT ![y].months[m].selected = ~stats[y].months[m].selected]
    IN  [flipped EXCEPT ![y].selected = AllMonthsSelected(flipped[y])]

\* ---------------------------------------------------------- the main window
\* The months of the inventory, each with its year.
MonthCells(ys) == UNION {{<<y, m>> : m \in DOMAIN ys[y].months} : y \in DOMAIN ys}

\* total += month_stat.photo_count over the months cells that are selected
RECURSIVE CountSelected(_, _)
CountSelected(ys, cells) ==
    IF cells = {} THEN 0
    ELSE LET c == CHOOSE c \in cells : TRUE
             month_stat == ys[c[1]].months[c[2]]
         IN  (IF month_stat.selected THEN month_stat.photo_count ELSE 0)
             + CountSelected(ys, cells \ {c})

\* PhotoTreeView.get_selected_count
get_selected_count(ys) == CountSelected(ys, MonthCells(ys))

\* MainWindow._on_selection_changed: the state it gives the export button
on_selection_changed(ys) ==
    IF get_selected_count(ys) > 0 THEN "normal" ELSE "disabled"

\* MainWindow._set_ui_state: the state it gives the export button
set_ui_state(analyzing, transferring) ==
    IF analyzing \/ transferring THEN "disabled" ELSE "normal"

\* ExportStats(): no statistics file yet
NoStats == [total_files_exported |-> 0, total_size_exported |-> 0, total_exports |-> 0]

\* SettingsManager.update_export_stats
update_export_stats(st, files_exported, size_exported) ==
    [st EXCEPT !.total_files_exported = @ + files_exported,
               !.total_size_exported = @ + size_exported,
               !.total_exports = @ + 1]

\* -------------------------------------------------------- the export folder
\* Path(path).name of the file of device path p: the first two differ only in
\* a character that is not allowed in a local file name.
Basename(p) ==
    IF p = 1 THEN <<"a", ":", "b">>
    ELSE IF p = 2 THEN <<"a", "_", "b">>
    ELSE [i \in 1..(p - 2) |-> "c"]

\* The photos of a task started without a scan: distinct names and folders.
DefaultPhotos(n) ==
    [i \in 1..n |-> [path |-> i, year |-> 1, month |-> ((i - 1) % MaxMonth) + 1,
                     size |-> i]]

InvalidChars == {"<", ">", ":", "\"", "/", "\\", "|", "?", "*"}

\* utils.sanitize_filename
sanitize_filename(filename) ==
    [i \in DOMAIN filename |-> IF filename[i] \in InvalidChars THEN "_" ELSE filename[i]]

month_names ==
    <<"January", "February", "March", "April", "May", "June", "July", "August",
      "September", "October", "November", "December">>

NoMonthDir == [mm |-> 0, name |-> ""]

\* utils.create_export_path: the directory under the export folder, a year
\* and, unless year_only, the month as "MM_MonthName".
create_export_path(year, month, year_only) ==
    IF year_only THEN [year |-> year, month_dir |-> NoMonthDir]
    ELSE [year |-> year, month_dir |-> [mm |-> month, name |-> month_names[month]]]

\* target_path of _transfer_single_photo, lines 186-191
target_path(photo, year_only) ==
    [dir |-> create_export_path(photo.year, photo.month, year_only),
     filename |-> sanitize_filename(Basename(photo.path))]

\* Mutant: a file already at the target makes the pull write under another name.
pull_Unique(store, photo, year_only) ==
    LET target == target_path(photo, year_only)
        other == [target EXCEPT !.filename = Append(@, "1")]
    IN  IF target \in DOMAIN store
        THEN (other :> photo.path) @@ store
        ELSE (target :> photo.path) @@ store

\* afc.pull(relative_src=photo.path, dst=str(target_path)): the file at the
\* target holds the bytes of the device file, whatever was there before.
pull(store, photo, year_only) ==
    (target_path(photo, year_only) :> photo.path) @@ store

NoFiles == [t \in {} |-> 0]

\* --------------------------------------------------- the device file tree
\* AppConfig.PHOTO_EXTENSIONS and VIDEO_EXTENSIONS
PHOTO_EXTENSIONS ==
    {".jpg", ".jpeg", ".png", ".heic", ".heif", ".gif", ".tiff", ".bmp", ".raw",
     ".cr2", ".nef", ".dng"}
VIDEO_EXTENSIONS ==
    {".mp4", ".mov", ".avi", ".mkv", ".m4v", ".3gp", ".wmv", ".flv"}

\* The suffixes the files of the tree have.
Exts == {".jpg", ".JPG", ".MOV", ".txt"}

\* str.lower on a suffix
lower(ext) ==
    CASE ext = ".JPG" -> ".jpg"
      [] ext = ".MOV" -> ".mov"
      [] OTHER -> ext

\* self._photo_paths
photo_paths == <<"/DCIM", "/Media/DCIM">>

Dirs == {"/DCIM", "/DCIM/100APPLE", "/Media/DCIM"}

DirItem(d)  == [ifmt |-> "S_IFDIR", dir |-> d, file |-> 0]
FileItem(f) == [ifmt |-> "S_IFREG", dir |-> "", file |-> f]

\* Where the directories and files are: file 1 and a directory with file 2
\* under /DCIM, the other files under /Media/DCIM.
Skeleton(path) ==
    CASE path = "/DCIM" -> <<DirItem("/DCIM/100APPLE"), FileItem(1)>>
      [] path = "/DCIM/100APPLE" -> <<FileItem(2)>>
      [] OTHER -> [i \in 1..(MaxAssets - 2) |-> FileItem(i + 2)]

\* A file is not there, or afc.stat on it raises, or it has a suffix and
\* may have a creation time.
AbsentFile == [stat |-> "absent", ext |-> "", birth |-> FALSE]
ErrorFile  == [stat |-> "error", ext |-> "", birth |-> FALSE]
FileStates == {AbsentFile, ErrorFile} \cup [stat : {"ok"}, ext : Exts, birth : BOOLEAN]

\* A directory: afc.stat on it raises, or afc.listdir on it raises, or it
\* can be listed.
DirStates == {"staterr", "unlistable", "ok"}

Trees == [dir : [Dirs -> DirStates], file : [1..MaxAssets -> FileStates]]

NoDevice == [dir |-> [d \in Dirs |-> "staterr"], file |-> [f \in 1..MaxAssets |-> AbsentFile]]

\* st_birthtime and st_size of a file, as year, month and size of its Photo.
BirthYear(f)  == ((f - 1) % MaxYear) + 1
BirthMonth(f) == (((f - 1) \div MaxYear) % MaxMonth) + 1
StSize(f)     == ((f - 1) % 2) + 1

\* afc.listdir(path) of a directory that can be listed
listdir(tree, path) ==
    SelectSeq(Skeleton(path),
              LAMBDA item : item.ifmt = "S_IFDIR" \/ tree.file[item.file].stat # "absent")

\* afc.stat(item_path) raises
StatRaises(tree, item) ==
    IF item.ifmt = "S_IFDIR" THEN tree.dir[item.dir] = "staterr"
    ELSE tree.file[item.file].stat = "error"

\* Mutant: the suffix is compared as it is written.
is_photo_file_CaseSensitive(ext) == ext \in PHOTO_EXTENSIONS \cup VIDEO_EXTENSIONS

\* PhotoAnalyzer._is_photo_file, on the suffix of the name
is_photo_file(ext) ==
    lower(ext) \in PHOTO_EXTENSIONS \/ lower(ext) \in VIDEO_EXTENSIONS

\* Mutant: a file without a creation time is dated by its other times.
create_photo_from_stat_AnyDate(f, info) ==
    <<[path |-> f, year |-> BirthYear(f), month |-> BirthMonth(f), size |-> StSize(f)]>>

\* PhotoAnalyzer._create_photo_from_stat: no Photo, here the empty sequence,
\* without st_birthtime.
create_photo_from_stat(f, info) ==
    IF ~info.birth THEN <<>>
    ELSE <<[path |-> f, year |-> BirthYear(f), month |-> BirthMonth(f),
            size |-> StSize(f)]>>

RECURSIVE scan_directory_recursive(_, _)
RECURSIVE ScanItems_StopAtError(_, _)
RECURSIVE ScanItems(_, _)

\* Mutant: an entry whose stat raises ends the loop over the directory.
ScanItems_StopAtError(tree, items) ==
    IF items = <<>> THEN <<>>
    ELSE LET item == Head(items)
         IN  IF StatRaises(tree, item) THEN <<>>
             ELSE (IF item.ifmt = "S_IFDIR"
                   THEN scan_directory_recursive(tree, item.dir)
                   ELSE IF is_photo_file(tree.file[item.file].ext)
                        THEN create_photo_from_stat(item.file, tree.file[item.file])
                        ELSE <<>>)
                  \o ScanItems_StopAtError(tree, Tail(items))

\* The loop of lines 128-155 over the listed items: an item whose stat
\* raises is passed over, a directory is scanned in turn, a file with a
\* media suffix gives a Photo if one can be made.
ScanItems(tree, items) ==
    IF items = <<>> THEN <<>>
    ELSE LET item == Head(items)
             photos == IF StatRaises(tree, item) THEN <<>>
                       ELSE IF item.ifmt = "S_IFDIR"
                            THEN scan_directory_recursive(tree, item.dir)
                            ELSE IF is_photo_file(tree.file[item.file].ext)
                                 THEN create_photo_from_stat(item.file, tree.file[item.file])
                                 ELSE <<>>
         IN  photos \o ScanItems(tree, Tail(items))

\* PhotoAnalyzer._scan_directory_recursive: a listdir that raises is logged
\* and the photos so far, none, are returned.
scan_directory_recursive(tree, path) ==
    IF tree.dir[path] # "ok" THEN <<>> ELSE ScanItems(tree, listdir(tree, path))

\* PhotoAnalyzer._path_exists
path_exists(tree, path) == tree.dir[path] # "staterr"

\* PhotoAnalyzer._find_all_photos
RECURSIVE ScanRoots(_, _)
ScanRoots(tree, base_paths) ==
    IF base_paths = <<>> THEN <<>>
    ELSE (IF ~path_exists(tree, Head(base_paths)) THEN <<>>
          ELSE scan_directory_recursive(tree, Head(base_paths)))
         \o ScanRoots(tree, Tail(base_paths))

find_all_photos(tree) == ScanRoots(tree, photo_paths)

\* MainWindow._start_analysis with the thread it starts and the callback the
\* thread queues, btn being the state of the export button at the call: no
\* device is an error box; get_afc_service may raise, and then the inventory
\* of the window stays; otherwise the inventory is the one analyze_photos
\* built and the tree is loaded with it. Both callbacks end the busy state.
start_analysis(btn) ==
    /\ IF ~is_connected
       THEN /\ scan_status' = "not_connected"
            /\ export_btn' = btn
            /\ UNCHANGED <<all_photos, year_stats>>
       ELSE /\ export_btn' = set_ui_state(FALSE, FALSE)
            /\ \E opened \in BOOLEAN :
                  IF opened
                  THEN /\ all_photos' = find_all_photos(fs)
                       /\ year_stats' = AnalysisResult(year_stats, find_all_photos(fs))
                       /\ scan_status' = "complete"
                  ELSE /\ scan_status' = "error"
                       /\ UNCHANGED <<all_photos, year_stats>>
    /\ last_click' = [kind |-> "scan", year |-> 0, month |-> 0, before |-> year_stats]

\* --------------------------------------------------------------------- Init
NoClick == [kind |-> "none"]

EngineInit ==
    /\ is_cancelled = FALSE
    /\ current_progress = 0
    /\ heap = [t \in {} |-> 0]
    /\ task = [id |-> 0, n |-> 0, delete_after_transfer |-> FALSE, batch_size |-> NoBatchSize,
               photos |-> <<>>, year_only |-> FALSE]
    /\ last_start = "none"
    /\ pc = "none"
    /\ idx = 1
    /\ batch_count = 0
    /\ attempt = 0
    /\ afc = "none"
    /\ exc = "None"
    /\ current_device \in BOOLEAN
    /\ usbmux = "listed"
    /\ pull_result = [i \in 1..MaxPhotos |-> "none"]
    /\ rm_issued = {}
    /\ device_files = 1..MaxPhotos
    /\ local_files = {}
    /\ published = <<>>
    /\ verify_failed = FALSE
    /\ cancel_at = -1
    /\ ui_queue = <<>>
    /\ ui_seen = <<>>
    /\ health_checks = {}
    /\ recovery = <<>>

\* The export folder is empty.
TransferInit ==
    /\ EngineInit
    /\ local_store = NoFiles

\* No scan made yet: the window starts with an empty inventory.
Init ==
    /\ TransferInit
    /\ all_photos = <<>>
    /\ year_stats = analyze_photos(all_photos)
    /\ selected_photos = <<>>
    /\ last_click = NoClick
    /\ fs = NoDevice
    /\ scan_status = "none"
    /\ export_btn = "disabled"
    /\ export_stats = NoStats
    /\ completions = <<>>

\* ------------------------------------------------- PhotoTransferManager API
\* Mutant: start_transfer without the guard of line 47.
start_transfer_Unguarded(photos, del, year_only, bs) ==
    /\ last_start' = "started"
    /\ is_cancelled' = FALSE
    /\ task' = [id |-> task.id + 1, n |-> Len(photos), delete_after_transfer |-> del,
                batch_size |-> bs, photos |-> photos, year_only |-> year_only]
    /\ pc' = "init"
    /\ idx' = 1
    /\ batch_count' = 0
    /\ attempt' = 0
    /\ afc' = "none"
    /\ exc' = "None"
    /\ pull_result' = [i \in 1..MaxPhotos |-> "none"]
    /\ rm_issued' = {}
    /\ device_files' = 1..MaxPhotos
    /\ local_files' = {}
    /\ published' = <<>>
    /\ verify_failed' = FALSE
    /\ cancel_at' = -1
    /\ ui_seen' = <<>>
    /\ health_checks' = {}
    /\ recovery' = <<>>
    /\ UNCHANGED <<current_progress, heap, current_device, usbmux, ui_queue,
                        local_store>>

\* Mutant: start_transfer leaves the cancellation flag as it finds it.
start_transfer_KeepsFlag(photos, del, year_only, bs) ==
    IF is_alive
    THEN /\ last_start' = "RuntimeError"
         /\ UNCHANGED <<is_cancelled, current_progress, heap, task, pc, idx,
                        batch_count, attempt, afc, exc, current_device, usbmux,
                        pull_result, rm_issued, device_files, local_files,
                        published, verify_failed, cancel_at, ui_queue, ui_seen,
                        health_checks, recovery, local_store>>
    ELSE /\ last_start' = "started"
         /\ is_cancelled' = is_cancelled
         /\ task' = [id |-> task.id + 1, n |-> Len(photos), delete_after_transfer |-> del,
                     batch_size |-> bs, photos |-> photos, year_only |-> year_only]
         /\ pc' = "init"
         /\ idx' = 1
         /\ batch_count' = 0
         /\ attempt' = 0
         /\ afc' = "none"
         /\ exc' = "None"
         /\ pull_result' = [i \in 1..MaxPhotos |-> "none"]
         /\ rm_issued' = {}
         /\ device_files' = 1..MaxPhotos
         /\ local_files' = {}
         /\ published' = <<>>
         /\ verify_failed' = FALSE
         /\ cancel_at' = -1
         /\ ui_seen' = <<>>
         /\ health_checks' = {}
         /\ recovery' = <<>>
         /\ UNCHANGED <<current_progress, heap, current_device, usbmux, ui_queue,
                        local_store>>

\* start_transfer: the guard of line 47, then the flag reset and the thread start.
\* The observations kept for the running task start afresh with it.
start_transfer(photos, del, year_only, bs) ==
    IF is_alive
    THEN /\ last_start' = "RuntimeError"
         /\ UNCHANGED <<is_cancelled, current_progress, heap, task, pc, idx,
                        batch_count, attempt, afc, exc, current_device, usbmux,
                        pull_result, rm_issued, device_files, local_files,
                        published, verify_failed, cancel_at, ui_queue, ui_seen,
                        health_checks, recovery, local_store>>
    ELSE /\ last_start' = "started"
         /\ is_cancelled' = FALSE
         /\ task' = [id |-> task.id + 1, n |-> Len(photos), delete_after_transfer |-> del,
                     batch_size |-> bs, photos |-> photos, year_only |-> year_only]
         /\ pc' = "init"
         /\ idx' = 1
         /\ batch_count' = 0
         /\ attempt' = 0
         /\ afc' = "none"
         /\ exc' = "None"
         /\ pull_result' = [i \in 1..MaxPhotos |-> "none"]
         /\ rm_issued' = {}
         /\ device_files' = 1..MaxPhotos
         /\ local_files' = {}
         /\ published' = <<>>
         /\ verify_failed' = FALSE
         /\ cancel_at' = -1
         /\ ui_seen' = <<>>
         /\ health_checks' = {}
         /\ recovery' = <<>>
         /\ UNCHANGED <<current_progress, heap, current_device, usbmux, ui_queue,
                        local_store>>

StartTransfer ==
    /\ is_alive \/ task.id < MaxTasks
    /\ \E n \in 0..MaxPhotos, del \in BOOLEAN, bs \in BatchSizes \cup {NoBatchSize} :
          start_transfer(DefaultPhotos(n), del, FALSE, bs)
    /\ UNCHANGED <<all_photos, year_stats, selected_photos, last_click,
                   fs, scan_status, export_btn, export_stats, completions>>

\* Mutant: cancelling also stamps the status of the current progress.
cancel_transfer_StampsStatus ==
    /\ is_cancelled' = TRUE
    /\ heap' = IF current_progress # 0
               THEN [heap EXCEPT ![current_progress].status = "cancelled"]
               ELSE heap
    /\ UNCHANGED current_progress

\* cancel_transfer: sets the flag, nothing else.
cancel_transfer ==
    /\ is_cancelled' = TRUE
    /\ UNCHANGED <<current_progress, heap>>

Processed == {i \in 1..MaxPhotos : pull_result[i] # "none"}

CancelTransfer ==
    /\ cancel_transfer
    /\ cancel_at' = IF cancel_at = -1 /\ is_alive /\ pc \notin {"final"}
                    THEN (IF current_progress = task.id
                          THEN heap[task.id].completed_files + heap[task.id].failed_files
                          ELSE 0)
                    ELSE cancel_at
    /\ UNCHANGED <<task, last_start, pc, idx, batch_count, attempt, afc, exc,
                   current_device, usbmux, pull_result, rm_issued, device_files,
                   local_files, published, verify_failed, ui_queue, ui_seen,
                   all_photos, year_stats,
                   selected_photos, last_click, health_checks, recovery,
                   local_store, fs, scan_status, export_btn, export_stats, completions>>

\* --------------------------------------------------------- the device link
\* The device is unplugged, replugged, or usbmux stops answering.
DeviceLinkChange ==
    /\ \E v \in {"listed", "absent", "error"} : v # usbmux /\ usbmux' = v
    /\ UNCHANGED <<is_cancelled, current_progress, heap, task, last_start, pc,
                   idx, batch_count, attempt, afc, exc, current_device,
                   pull_result, rm_issued, device_files, local_files, published,
                   verify_failed, cancel_at, ui_queue, ui_seen, all_photos, year_stats,
                   selected_photos, last_click, health_checks, recovery,
                   local_store, fs, scan_status, export_btn, export_stats, completions>>

\* ----------------------------------------------------------- the worker
SetProgress(f, v) == heap' = [heap EXCEPT ![task.id][f] = v]

\* progress_callback(self._current_progress) with MainWindow._on_transfer_progress
\* as the callback: it queues update_progress on the Tk loop with the object
\* itself, and, the status being terminal at the call, _on_transfer_complete.
Publish(h) ==
    /\ published' = Append(published, [task |-> task.id,
                        completed_files |-> h[task.id].completed_files,
                        failed_files |-> h[task.id].failed_files,
                        status |-> h[task.id].status])
    /\ ui_queue' = ui_queue \o
          (IF h[task.id].status \in Terminal
           THEN << [kind |-> "update", ref |-> task.id],
                   [kind |-> "complete", ref |-> task.id] >>
           ELSE << [kind |-> "update", ref |-> task.id] >>)

\* _transfer_worker, lines 80-89: the TransferProgress of the task is created.
WorkerInit ==
    /\ pc = "init"
    /\ heap' = (task.id :> NewProgress(task.n)) @@ heap
    /\ current_progress' = task.id
    /\ pc' = "open"
    /\ UNCHANGED <<is_cancelled, task, last_start, idx, batch_count, attempt,
                   afc, exc, current_device, usbmux, pull_result, rm_issued,
                   device_files, local_files, published, verify_failed,
                   cancel_at, ui_queue, ui_seen, all_photos, year_stats,
                   selected_photos, last_click, health_checks, recovery,
                   local_store, fs, scan_status, export_btn, export_stats, completions>>

\* DeviceManager.get_afc_service entered by the with statement of line 131.
\* No device: RuntimeError. AfcService(...) itself fails when the link is gone,
\* and may fail otherwise.
WorkerOpenAfc ==
    /\ pc = "open"
    /\ IF ~current_device
       THEN /\ exc' = "No device connected"
            /\ pc' = "except"
            /\ afc' = afc
       ELSE \E ok \in BOOLEAN :
              /\ ok => usbmux = "listed"
              /\ IF ok THEN /\ afc' = "open"
                            /\ pc' = "loop"
                            /\ exc' = exc
                       ELSE /\ afc' = afc
                            /\ pc' = "except"
                            /\ exc' = "AFC service error"
    /\ UNCHANGED <<is_cancelled, current_progress, heap, task, last_start, idx,
                   batch_count, attempt, current_device, usbmux, pull_result,
                   rm_issued, device_files, local_files, published,
                   verify_failed, cancel_at, ui_queue, ui_seen, all_photos, year_stats,
                   selected_photos, last_click, health_checks, recovery,
                   local_store, fs, scan_status, export_btn, export_stats, completions>>

\* Mutant: the loop does not poll the cancellation flag.
LoopTop_NoPoll(i, n, cancelled, bc, bs) ==
    IF i > n THEN "close"
    ELSE IF bc >= effective_batch_size(bs) THEN "verify"
    ELSE "pull"

\* Mutant: the boundary test lets one more photo through before the check.
LoopTop_LateBoundary(i, n, cancelled, bc, bs) ==
    IF i > n THEN "close"
    ELSE IF cancelled THEN "close"
    ELSE IF bc > effective_batch_size(bs) THEN "verify"
    ELSE "pull"

\* The decisions at the top of the loop body, lines 132-140.
LoopTop(i, n, cancelled, bc, bs) ==
    IF i > n THEN "close"
    ELSE IF cancelled THEN "close"
    ELSE IF bc >= effective_batch_size(bs) THEN "verify"
    ELSE "pull"

\* Top of the for loop, lines 132-143: end of the list, the cancellation poll,
\* the batch-boundary test, then current_file.
WorkerLoopTop ==
    /\ pc = "loop"
    /\ pc' = LoopTop(idx, task.n, is_cancelled, batch_count, task.batch_size)
    /\ UNCHANGED <<is_cancelled, current_progress, heap, task, last_start, idx,
                   batch_count, attempt, afc, exc, current_device, usbmux,
                   pull_result, rm_issued, device_files, local_files, published,
                   verify_failed, cancel_at, ui_queue, ui_seen, all_photos, year_stats,
                   selected_photos, last_click, health_checks, recovery,
                   local_store, fs, scan_status, export_btn, export_stats, completions>>

\* _verify_and_reconnect, lines 219-224: the health check at the boundary.
WorkerVerify ==
    /\ pc = "verify"
    /\ health_checks' = health_checks \cup {idx}
    /\ recovery' = <<>>
    /\ IF verify_connection
       THEN /\ batch_count' = 0
            /\ pc' = "pull"
            /\ UNCHANGED <<attempt, verify_failed>>
       ELSE /\ attempt' = 0
            /\ verify_failed' = TRUE
            /\ pc' = "sleep"
            /\ UNCHANGED batch_count
    /\ UNCHANGED <<is_cancelled, current_progress, heap, task, last_start, idx,
                   afc, exc, current_device, usbmux, pull_result, rm_issued,
                   device_files, local_files, published, cancel_at, ui_queue,
                   ui_seen, all_photos, year_stats, selected_photos, last_click,
                   local_store, fs, scan_status, export_btn, export_stats, completions>>

\* Line 229: time.sleep(RECONNECT_DELAY) at the start of a round.
WorkerSleep ==
    /\ pc = "sleep"
    /\ recovery' = Append(recovery, "sleep")
    /\ pc' = "reconnect"
    /\ UNCHANGED <<is_cancelled, current_progress, heap, task, last_start, idx,
                   batch_count, attempt, afc, exc, current_device, usbmux,
                   pull_result, rm_issued, device_files, local_files, published,
                   verify_failed, cancel_at, ui_queue, ui_seen, all_photos,
                   year_stats, selected_photos, last_click, health_checks,
                   local_store, fs, scan_status, export_btn, export_stats, completions>>

\* Mutant: the reconnection is given up after its first round.
MoreRounds_GiveUpAtOnce(a) == FALSE

\* Mutant: the loop runs one round more than RECONNECT_ATTEMPTS.
MoreRounds_OneMore(a) == a + 1 < RECONNECT_ATTEMPTS + 1

\* for attempt in range(RECONNECT_ATTEMPTS): there is a round after round a.
MoreRounds(a) == a + 1 < RECONNECT_ATTEMPTS

\* Mutant: after a successful reconnection the photos of the batch just
\* finished are transferred again.
WorkerReconnect_RetryBatch ==
    /\ pc = "reconnect"
    /\ IF is_connected
       THEN /\ recovery' = Append(recovery, "connected")
            /\ batch_count' = 0
            /\ idx' = idx - batch_count
            /\ pc' = "pull"
            /\ UNCHANGED <<attempt, exc>>
       ELSE /\ recovery' = Append(recovery, "disconnected")
            /\ attempt' = attempt + 1
            /\ idx' = idx
            /\ IF MoreRounds(attempt)
               THEN /\ pc' = "sleep"
                    /\ UNCHANGED <<batch_count, exc>>
               ELSE /\ exc' = "Device disconnected and could not reconnect"
                    /\ pc' = "close"
                    /\ UNCHANGED batch_count
    /\ UNCHANGED <<is_cancelled, current_progress, heap, task, last_start,
                   afc, current_device, usbmux, pull_result, rm_issued,
                   device_files, local_files, published, verify_failed,
                   cancel_at, ui_queue, ui_seen, all_photos, year_stats,
                   selected_photos, last_click, health_checks,
                   local_store, fs, scan_status, export_btn, export_stats, completions>>

\* Mutant: the RuntimeError of line 139 goes to the except clause of the
\* worker without the connection being closed on the way.
WorkerReconnect_RaisePastClose ==
    /\ pc = "reconnect"
    /\ IF is_connected
       THEN /\ recovery' = Append(recovery, "connected")
            /\ batch_count' = 0
            /\ pc' = "pull"
            /\ UNCHANGED <<attempt, exc>>
       ELSE /\ recovery' = Append(recovery, "disconnected")
            /\ attempt' = attempt + 1
            /\ IF MoreRounds(attempt)
               THEN /\ pc' = "sleep"
                    /\ UNCHANGED <<batch_count, exc>>
               ELSE /\ exc' = "Device disconnected and could not reconnect"
                    /\ pc' = "except"
                    /\ UNCHANGED batch_count
    /\ UNCHANGED <<is_cancelled, current_progress, heap, task, last_start, idx,
                   afc, current_device, usbmux, pull_result, rm_issued,
                   device_files, local_files, published, verify_failed,
                   cancel_at, ui_queue, ui_seen, all_photos, year_stats,
                   selected_photos, last_click, health_checks,
                   local_store, fs, scan_status, export_btn, export_stats, completions>>

\* Lines 231-236: is_connected() after the sleep of the round. A success
\* returns True at once; after the last failed round the function returns
\* False and line 139 raises.
WorkerReconnect ==
    /\ pc = "reconnect"
    /\ IF is_connected
       THEN /\ recovery' = Append(recovery, "connected")
            /\ batch_count' = 0
            /\ pc' = "pull"
            /\ UNCHANGED <<attempt, exc>>
       ELSE /\ recovery' = Append(recovery, "disconnected")
            /\ attempt' = attempt + 1
            /\ IF MoreRounds(attempt)
               THEN /\ pc' = "sleep"
                    /\ UNCHANGED <<batch_count, exc>>
               ELSE /\ exc' = "Device disconnected and could not reconnect"
                    /\ pc' = "close"
                    /\ UNCHANGED batch_count
    /\ UNCHANGED <<is_cancelled, current_progress, heap, task, last_start, idx,
                   afc, current_device, usbmux, pull_result, rm_issued,
                   device_files, local_files, published, verify_failed,
                   cancel_at, ui_queue, ui_seen, all_photos, year_stats,
                   selected_photos, last_click, health_checks,
                   local_store, fs, scan_status, export_btn, export_stats, completions>>

\* Mutant: the delete no longer waits for the pull to have succeeded.
ShouldDelete_AnyOutcome(success, del) == del

\* Lines 154-155: the source is deleted when the pull succeeded and the task asks for it.
ShouldDelete(success, del) == success /\ del

\* Mutant: a failed pull leaves the loop instead of going on to the next photo.
AfterPull_BreakOnFailure(success, del) ==
    IF ~success THEN "close"
    ELSE IF ShouldDelete(success, del) THEN "delete" ELSE "publish"

\* Where the loop body goes after the pull, lines 149-165: to the delete, or
\* straight to the counting of the batch and the progress update.
AfterPull(success, del) ==
    IF ShouldDelete(success, del) THEN "delete" ELSE "publish"

\* Mutant: the bytes of a photo are added whether or not its pull succeeded.
WorkerPull_BytesOfEveryPhoto ==
    /\ pc = "pull"
    /\ \E success \in BOOLEAN :
          /\ success => usbmux = "listed"
          /\ pull_result' = [pull_result EXCEPT ![idx] = IF success THEN "ok" ELSE "fail"]
          /\ local_files' = IF success THEN local_files \cup {idx} ELSE local_files
          /\ local_store' = IF success
                            THEN pull(local_store, task.photos[idx], task.year_only)
                            ELSE local_store
          /\ heap' = IF success
                     THEN [heap EXCEPT ![task.id].completed_files = @ + 1,
                                       ![task.id].transferred_size = @ + PhotoSize(idx)]
                     ELSE [heap EXCEPT ![task.id].failed_files = @ + 1,
                                       ![task.id].transferred_size = @ + PhotoSize(idx)]
          /\ pc' = AfterPull(success, task.delete_after_transfer)
    /\ UNCHANGED <<is_cancelled, current_progress, task, last_start, idx,
                   batch_count, attempt, afc, exc, current_device, usbmux,
                   rm_issued, device_files, published, verify_failed, cancel_at,
                   ui_queue, ui_seen, all_photos, year_stats,
                   selected_photos, last_click, health_checks, recovery,
                   fs, scan_status, export_btn, export_stats, completions>>

\* _transfer_single_photo and the counting of lines 147-163. afc.pull needs
\* the link and may fail on the file itself; every exception gives False.
WorkerPull ==
    /\ pc = "pull"
    /\ \E success \in BOOLEAN :
          /\ success => usbmux = "listed"
          /\ pull_result' = [pull_result EXCEPT ![idx] = IF success THEN "ok" ELSE "fail"]
          /\ local_files' = IF success THEN local_files \cup {idx} ELSE local_files
          /\ local_store' = IF success
                            THEN pull(local_store, task.photos[idx], task.year_only)
                            ELSE local_store
          /\ heap' = IF success
                     THEN [heap EXCEPT ![task.id].completed_files = @ + 1,
                                       ![task.id].transferred_size = @ + PhotoSize(idx)]
                     ELSE [heap EXCEPT ![task.id].failed_files = @ + 1]
          /\ pc' = AfterPull(success, task.delete_after_transfer)
    /\ UNCHANGED <<is_cancelled, current_progress, task, last_start, idx,
                   batch_count, attempt, afc, exc, current_device, usbmux,
                   rm_issued, device_files, published, verify_failed, cancel_at,
                   ui_queue, ui_seen, all_photos, year_stats,
                   selected_photos, last_click, health_checks, recovery,
                   fs, scan_status, export_btn, export_stats, completions>>

\* Mutant: the deletion also takes the photo out of the count of its year.
WorkerDelete_UpdatesInventory ==
    /\ pc = "delete"
    /\ rm_issued' = rm_issued \cup {idx}
    /\ \E removed \in BOOLEAN :
          /\ removed => usbmux = "listed"
          /\ device_files' = IF removed THEN device_files \ {idx} ELSE device_files
    /\ year_stats' = IF task.photos[idx].year \in DOMAIN year_stats
                     THEN [year_stats EXCEPT ![task.photos[idx].year].photo_count = @ - 1]
                     ELSE year_stats
    /\ pc' = "publish"
    /\ UNCHANGED <<is_cancelled, current_progress, heap, task, last_start, idx,
                   batch_count, attempt, afc, exc, current_device, usbmux,
                   pull_result, local_files, published, verify_failed,
                   cancel_at, ui_queue, ui_seen, all_photos,
                   selected_photos, last_click, health_checks, recovery,
                   local_store, fs, scan_status, export_btn, export_stats, completions>>

\* _delete_photo: afc.rm, whose failure is logged and swallowed.
WorkerDelete ==
    /\ pc = "delete"
    /\ rm_issued' = rm_issued \cup {idx}
    /\ \E removed \in BOOLEAN :
          /\ removed => usbmux = "listed"
          /\ device_files' = IF removed THEN device_files \ {idx} ELSE device_files
    /\ pc' = "publish"
    /\ UNCHANGED <<is_cancelled, current_progress, heap, task, last_start, idx,
                   batch_count, attempt, afc, exc, current_device, usbmux,
                   pull_result, local_files, published, verify_failed,
                   cancel_at, ui_queue, ui_seen, all_photos, year_stats,
                   selected_photos, last_click, health_checks, recovery,
                   local_store, fs, scan_status, export_btn, export_stats, completions>>

\* Mutant: the progress update is sent only for a photo that was transferred.
WorkerPublish_OnSuccessOnly ==
    /\ pc = "publish"
    /\ batch_count' = batch_count + 1
    /\ IF pull_result[idx] = "ok"
       THEN Publish(heap)
       ELSE UNCHANGED <<published, ui_queue>>
    /\ idx' = idx + 1
    /\ pc' = "loop"
    /\ UNCHANGED <<is_cancelled, current_progress, heap, task, last_start,
                   attempt, afc, exc, current_device, usbmux, pull_result,
                   rm_issued, device_files, local_files, verify_failed,
                   cancel_at, ui_seen, all_photos, year_stats,
                   selected_photos, last_click, health_checks, recovery,
                   local_store, fs, scan_status, export_btn, export_stats, completions>>

\* Lines 165-169: batch_count += 1 and the progress update after the photo.
WorkerPublish ==
    /\ pc = "publish"
    /\ batch_count' = batch_count + 1
    /\ Publish(heap)
    /\ idx' = idx + 1
    /\ pc' = "loop"
    /\ UNCHANGED <<is_cancelled, current_progress, heap, task, last_start,
                   attempt, afc, exc, current_device, usbmux, pull_result,
                   rm_issued, device_files, local_files, verify_failed,
                   cancel_at, ui_seen, all_photos, year_stats,
                   selected_photos, last_click, health_checks, recovery,
                   local_store, fs, scan_status, export_btn, export_stats, completions>>

\* Mutant: get_afc_service logs the exception and does not raise it again.
AfterClose_Swallow(e) == "status"

\* get_afc_service, lines 106-108: an exception of the block is raised again.
AfterClose(e) == IF e = "None" THEN "status" ELSE "except"

\* Leaving the with block (get_afc_service, lines 106-114): afc.close(), then
\* either the normal return or the exception goes on to _transfer_worker.
WorkerCloseAfc ==
    /\ pc = "close"
    /\ afc' = "closed"
    /\ pc' = AfterClose(exc)
    /\ UNCHANGED <<is_cancelled, current_progress, heap, task, last_start, idx,
                   batch_count, attempt, exc, current_device, usbmux,
                   pull_result, rm_issued, device_files, local_files, published,
                   verify_failed, cancel_at, ui_queue, ui_seen, all_photos, year_stats,
                   selected_photos, last_click, health_checks, recovery,
                   local_store, fs, scan_status, export_btn, export_stats, completions>>

\* _transfer_worker, lines 101-106.
WorkerSetStatus ==
    /\ pc = "status"
    /\ SetProgress("status", IF is_cancelled THEN "cancelled" ELSE "completed")
    /\ pc' = "final"
    /\ UNCHANGED <<is_cancelled, current_progress, task, last_start, idx,
                   batch_count, attempt, afc, exc, current_device, usbmux,
                   pull_result, rm_issued, device_files, local_files, published,
                   verify_failed, cancel_at, ui_queue, ui_seen, all_photos, year_stats,
                   selected_photos, last_click, health_checks, recovery,
                   local_store, fs, scan_status, export_btn, export_stats, completions>>

\* _transfer_worker, lines 108-111.
WorkerExcept ==
    /\ pc = "except"
    /\ heap' = [heap EXCEPT ![task.id].status = "failed",
                            ![task.id].error_message = exc]
    /\ pc' = "final"
    /\ UNCHANGED <<is_cancelled, current_progress, task, last_start, idx,
                   batch_count, attempt, afc, exc, current_device, usbmux,
                   pull_result, rm_issued, device_files, local_files, published,
                   verify_failed, cancel_at, ui_queue, ui_seen, all_photos, year_stats,
                   selected_photos, last_click, health_checks, recovery,
                   local_store, fs, scan_status, export_btn, export_stats, completions>>

\* Mutant: the final callback is made at the end of the try block, not in finally.
WorkerFinal_NotInFinally ==
    /\ pc = "final"
    /\ IF exc = "None"
       THEN Publish(heap)
       ELSE UNCHANGED <<published, ui_queue>>
    /\ pc' = "done"
    /\ UNCHANGED <<is_cancelled, current_progress, heap, task, last_start, idx,
                   batch_count, attempt, afc, exc, current_device, usbmux,
                   pull_result, rm_issued, device_files, local_files,
                   verify_failed, cancel_at, ui_seen, all_photos, year_stats,
                   selected_photos, last_click, health_checks, recovery,
                   local_store, fs, scan_status, export_btn, export_stats, completions>>

\* _transfer_worker, lines 113-115: the final callback; the thread then ends.
WorkerFinal ==
    /\ pc = "final"
    /\ Publish(heap)
    /\ pc' = "done"
    /\ UNCHANGED <<is_cancelled, current_progress, heap, task, last_start, idx,
                   batch_count, attempt, afc, exc, current_device, usbmux,
                   pull_result, rm_issued, device_files, local_files,
                   verify_failed, cancel_at, ui_seen, all_photos, year_stats,
                   selected_photos, last_click, health_checks, recovery,
                   local_store, fs, scan_status, export_btn, export_stats, completions>>

Worker ==
    \/ WorkerInit
    \/ WorkerOpenAfc
    \/ WorkerLoopTop
    \/ WorkerVerify
    \/ WorkerSleep
    \/ WorkerReconnect
    \/ WorkerPull
    \/ WorkerDelete
    \/ WorkerPublish
    \/ WorkerCloseAfc
    \/ WorkerSetStatus
    \/ WorkerExcept
    \/ WorkerFinal

\* ------------------------------------------------------- the Tk main loop
\* Mutant: the statistics are updated whatever the status of the task.
on_transfer_complete_AnyStatus(ref) ==
    LET progress == heap[ref]
    IN  /\ completions' = Append(completions, ref)
        /\ export_stats' = IF progress.completed_files > 0
                           THEN update_export_stats(export_stats, progress.completed_files,
                                                    progress.transferred_size)
                           ELSE export_stats
        /\ \E delete_var \in BOOLEAN :
              IF progress.status = "completed" /\ delete_var
              THEN start_analysis(set_ui_state(FALSE, FALSE))
              ELSE /\ export_btn' = set_ui_state(FALSE, FALSE)
                   /\ UNCHANGED <<all_photos, year_stats, scan_status, last_click>>

\* MainWindow._on_transfer_complete, run by the main loop with the
\* TransferProgress object it was queued with: the busy state ends; a
\* completed task with a completed file is added to the statistics, and the
\* device is analyzed again when the delete box is checked.
on_transfer_complete(ref) ==
    LET progress == heap[ref]
    IN  /\ completions' = Append(completions, ref)
        /\ export_stats' = IF progress.status = "completed" /\ progress.completed_files > 0
                           THEN update_export_stats(export_stats, progress.completed_files,
                                                    progress.transferred_size)
                           ELSE export_stats
        /\ \E delete_var \in BOOLEAN :
              IF progress.status = "completed" /\ delete_var
              THEN start_analysis(set_ui_state(FALSE, FALSE))
              ELSE /\ export_btn' = set_ui_state(FALSE, FALSE)
                   /\ UNCHANGED <<all_photos, year_stats, scan_status, last_click>>

\* The main loop runs the oldest queued callback. update_progress reads the
\* TransferProgress object it was queued with as the object is at that moment.
UiRun ==
    /\ ui_queue # <<>>
    /\ ui_queue' = Tail(ui_queue)
    /\ ui_seen' = IF Head(ui_queue).kind = "update" /\ Head(ui_queue).ref = task.id
                  THEN Append(ui_seen, Snapshot(Head(ui_queue).ref))
                  ELSE ui_seen
    /\ IF Head(ui_queue).kind = "complete"
       THEN on_transfer_complete(Head(ui_queue).ref)
       ELSE UNCHANGED <<export_btn, export_stats, completions, all_photos,
                        year_stats, scan_status, last_click>>
    /\ UNCHANGED <<is_cancelled, current_progress, heap, task, last_start, pc,
                   idx, batch_count, attempt, afc, exc, current_device, usbmux,
                   pull_result, rm_issued, device_files, local_files, published,
                   verify_failed, cancel_at, selected_photos, health_checks,
                   recovery, local_store, fs>>

\* ------------------------------------------------------------ specification
Next ==
    \/ StartTransfer
    \/ CancelTransfer
    \/ DeviceLinkChange
    \/ Worker

Spec == Init /\ [][Next]_vars

\* The same with the main loop of the window draining the queued callbacks.
UiNext ==
    \/ Next
    \/ UiRun

UiSpec == Init /\ [][UiNext]_vars

\* Tasks started one after the other, each of one or two photos that are
\* deleted after their transfer, with a health check before every photo
\* but the first.
StartAgain ==
    /\ is_alive \/ task.id < MaxAgain
    /\ \E n \in 1..2 : start_transfer(DefaultPhotos(n), TRUE, FALSE, 1)
    /\ UNCHANGED <<all_photos, year_stats, selected_photos, last_click,
                   fs, scan_status, export_btn, export_stats, completions>>

AgainNext ==
    \/ StartAgain
    \/ CancelTransfer
    \/ DeviceLinkChange
    \/ Worker

AgainSpec == Init /\ [][AgainNext]_vars

\* The worker is a thread: it keeps being scheduled while it can take a step.
LiveSpec == Init /\ [][Next]_vars /\ WF_vars(Worker)
\* ------------------------------------------------ the selection tree
\* The tree right after load_photos of a scan that found all_photos.
\* The i-th photo found is the file of path i: a scan finds a file once.
Found(f) ==
    [i \in DOMAIN f |-> [path |-> i, year |-> f[i].year, month |-> f[i].month,
                         size |-> f[i].size]]

AssetSeqs ==
    UNION {{Found(f) : f \in [1..k -> [year : Years, month : Months, size : Sizes]]} :
              k \in 0..MaxAssets}

SelInit ==
    /\ TransferInit
    /\ all_photos \in AssetSeqs
    /\ year_stats = analyze_photos(all_photos)
    /\ selected_photos = <<>>
    /\ last_click = NoClick
    /\ fs = NoDevice
    /\ scan_status = "none"
    /\ export_btn = set_ui_state(FALSE, FALSE)
    /\ export_stats = NoStats
    /\ completions = <<>>

\* A click on a year row.
ToggleYear ==
    /\ \E y \in DOMAIN year_stats :
          /\ year_stats' = toggle_year(year_stats, y)
          /\ last_click' = [kind |-> "year", year |-> y, month |-> 0,
                            before |-> year_stats,
                            twice |-> last_click.kind = "year" /\ last_click.year = y,
                            origin |-> IF last_click.kind = "year" /\ last_click.year = y
                                       THEN last_click.before ELSE <<>>]
    /\ export_btn' = on_selection_changed(year_stats')
    /\ UNCHANGED <<tvars, all_photos, selected_photos, fs, scan_status,
                   export_stats, completions>>

\* A click on a month row.
ToggleMonth ==
    /\ \E y \in DOMAIN year_stats :
          \E m \in DOMAIN year_stats[y].months :
              /\ year_stats' = toggle_month(year_stats, y, m)
              /\ last_click' = [kind |-> "month", year |-> y, month |-> m,
                                before |-> year_stats]
    /\ export_btn' = on_selection_changed(year_stats')
    /\ UNCHANGED <<tvars, all_photos, selected_photos, fs, scan_status,
                   export_stats, completions>>

\* MainWindow._start_export up to line 368: the photos to export are read from
\* the inventory.
StartExport ==
    /\ selected_photos' = get_selected_photos(year_stats, all_photos)
    /\ last_click' = [kind |-> "export", year |-> 0, month |-> 0,
                      before |-> year_stats]
    /\ UNCHANGED <<tvars, all_photos, year_stats, fs, scan_status, export_btn,
                   export_stats, completions>>

SelNext ==
    \/ ToggleYear
    \/ ToggleMonth
    \/ StartExport

SelSpec == SelInit /\ [][SelNext]_vars

\* ------------------------------------------------------------- the scan
\* A click on the analyze button.
Scan ==
    /\ start_analysis(export_btn)
    /\ UNCHANGED <<tvars, selected_photos, fs, export_stats, completions>>

\* The trees with files that are there.
ScanTrees == {t \in Trees : \A f \in 1..MaxAssets : t.file[f].stat # "absent"}

ScanInit ==
    /\ TransferInit
    /\ all_photos = <<>>
    /\ year_stats = analyze_photos(all_photos)
    /\ selected_photos = <<>>
    /\ last_click = NoClick
    /\ fs \in ScanTrees
    /\ scan_status = "none"
    /\ export_btn = "disabled"
    /\ export_stats = NoStats
    /\ completions = <<>>

ScanNext ==
    \/ Scan
    \/ DeviceLinkChange

ScanSpec == ScanInit /\ [][ScanNext]_vars

\* ------------------------------------------------ scans of a changing device
MediaFile == [stat |-> "ok", ext |-> ".jpg", birth |-> TRUE]

\* The trees whose directories can be listed and whose files, where there,
\* are photos.
RescanTrees ==
    {t \in Trees : /\ \A d \in Dirs : t.dir[d] = "ok"
                   /\ \A f \in 1..MaxAssets : t.file[f] \in {AbsentFile, MediaFile}}

\* Between scans a photo is taken on the device or removed from it.
DeviceChange ==
    /\ \E f \in 1..MaxAssets :
          fs' = [fs EXCEPT !.file[f] = IF @ = AbsentFile THEN MediaFile ELSE AbsentFile]
    /\ UNCHANGED <<tvars, all_photos, year_stats, selected_photos, last_click,
                   scan_status, export_btn, export_stats, completions>>

RescanInit ==
    /\ TransferInit
    /\ all_photos = <<>>
    /\ year_stats = analyze_photos(all_photos)
    /\ selected_photos = <<>>
    /\ last_click = NoClick
    /\ fs \in RescanTrees
    /\ scan_status = "none"
    /\ export_btn = "disabled"
    /\ export_stats = NoStats
    /\ completions = <<>>

RescanNext ==
    \/ Scan
    \/ DeviceChange
    \/ ToggleYear
    \/ ToggleMonth

RescanSpec == RescanInit /\ [][RescanNext]_vars

\* ------------------------------------------------ the export of a selection
\* Scans of at most MaxExport files, all of one size, the first file of
\* year 1 and month 1, the others of any year and month.
ExportSeqs ==
    UNION {{Found(f) : f \in {g \in [1..k -> [year : Years, month : Months, size : {1}]] :
                                  k > 0 => g[1].year = 1 /\ g[1].month = 1}} :
              k \in 0..MaxExport}

\* The tree after one click on each year row of ys.
Clicked(stats, ys) ==
    [y \in DOMAIN stats |-> IF y \in ys THEN toggle_year(stats, y)[y] ELSE stats[y]]

\* A file left in the export folder by something else, where the first file
\* of the device would go in the year and month layout.
OldFile == target_path([path |-> 1, year |-> 1, month |-> 1], FALSE) :> 0

ExportInit ==
    /\ EngineInit
    /\ local_store \in {NoFiles, OldFile}
    /\ all_photos \in ExportSeqs
    /\ year_stats \in {Clicked(analyze_photos(all_photos), ys) :
                          ys \in SUBSET DOMAIN analyze_photos(all_photos)}
    /\ selected_photos = <<>>
    /\ last_click = NoClick
    /\ fs = NoDevice
    /\ scan_status = "none"
    /\ export_btn = set_ui_state(FALSE, FALSE)
    /\ export_stats = NoStats
    /\ completions = <<>>

\* MainWindow._start_export: nothing selected is a warning; otherwise the
\* selected photos go to start_transfer with the settings of the window.
StartExportTransfer ==
    LET selected == get_selected_photos(year_stats, all_photos)
    IN  /\ selected_photos' = selected
        /\ last_click' = [kind |-> "export", year |-> 0, month |-> 0,
                          before |-> year_stats]
        /\ IF selected = <<>>
           THEN UNCHANGED <<tvars, export_btn>>
           ELSE /\ is_alive \/ task.id < MaxTasks
                /\ export_btn' = set_ui_state(FALSE, TRUE)
                /\ \E del \in BOOLEAN, year_only \in BOOLEAN, bs \in BatchSizes :
                      start_transfer(selected, del, year_only, bs)
        /\ UNCHANGED <<all_photos, year_stats, fs, scan_status, export_stats, completions>>

ExportNext ==
    \/ StartExportTransfer
    \/ CancelTransfer
    \/ DeviceLinkChange
    \/ Worker

ExportSpec == ExportInit /\ [][ExportNext]_vars

\* ------------------------------------------------------------------ claims
Cur == heap[task.id]                    \* the TransferProgress of the task
PullOk     == {i \in 1..MaxPhotos : pull_result[i] = "ok"}
PullFailed == {i \in 1..MaxPhotos : pull_result[i] = "fail"}
Fatal == "Device disconnected and could not reconnect"

\* C1: a delete is issued for a photo only after its pull succeeded, and only
\* in a task started with delete_after_transfer: never for a photo whose pull
\* failed, never when the flag is false.
C1_DeleteOnlyAfterSuccess ==
    \A i \in rm_issued : pull_result[i] = "ok" /\ task.delete_after_transfer

C1_Witness ==
    /\ pc = "done"
    /\ rm_issued # {}
    /\ PullFailed # {}

\* C2 as stated: with no cancel request and no failed health check, a finished
\* task of N photos of which the pulls of F failed has attempted every photo
\* and ends completed with N - |F| completed and |F| failed.
C2_AsStated ==
    (pc = "done" /\ cancel_at = -1 /\ ~is_cancelled /\ ~verify_failed) =>
        /\ \A i \in 1..task.n : pull_result[i] # "none"
        /\ Cur.completed_files = task.n - Cardinality(PullFailed)
        /\ Cur.failed_files = Cardinality(PullFailed)
        /\ Cur.status = "completed"

\* C2 amended: the same, for a task whose device file connection was opened.
C2_PullFailureDoesNotAbort ==
    (pc = "done" /\ afc # "none" /\ cancel_at = -1 /\ ~is_cancelled /\ ~verify_failed) =>
        /\ \A i \in 1..task.n : pull_result[i] # "none"
        /\ Cur.completed_files = task.n - Cardinality(PullFailed)
        /\ Cur.failed_files = Cardinality(PullFailed)
        /\ Cur.status = "completed"

C2_Witness ==
    /\ pc = "done"
    /\ afc # "none" /\ cancel_at = -1 /\ ~is_cancelled /\ ~verify_failed
    /\ task.n = 3
    /\ PullFailed = {2}
    /\ Cur.completed_files = 2 /\ Cur.failed_files = 1

\* C3: once a batch-boundary health check and all recovery rounds have failed,
\* no photo from the boundary on is pulled or deleted, the local files of the
\* photos pulled before it stay, completed_files is the number of photos
\* pulled before it, and the task ends failed with the error attached.
C3_FatalAtBoundary ==
    exc = Fatal =>
        /\ Processed = 1..(idx - 1)
        /\ rm_issued \subseteq PullOk
        /\ local_files = PullOk
        /\ Cur.completed_files = Cardinality(PullOk)
        /\ pc = "done" => Cur.status = "failed" /\ Cur.error_message = Fatal

C3_Witness ==
    /\ pc = "done"
    /\ exc = Fatal
    /\ idx <= task.n
    /\ Cur.completed_files >= 1
    /\ Cur.status = "failed"
\* C4 as stated: a cancel requested on the running task after j photos were
\* processed makes the task end cancelled, with at most one more photo
\* processed and no local file written for the photos after it.
C4_AsStated ==
    (pc = "done" /\ cancel_at >= 0) =>
        /\ Cur.status = "cancelled"
        /\ Cur.completed_files + Cur.failed_files <= cancel_at + 1
        /\ \A i \in local_files : i <= cancel_at + 1

\* C4 amended: the task ends cancelled, or failed when the opening of the
\* device connection or a batch-boundary health check with its recovery failed
\* before the worker polled the flag again; the bounds on the photos processed
\* and on the local files written hold in both cases.
C4_CancelIsBounded ==
    (pc = "done" /\ cancel_at >= 0) =>
        /\ Cur.status = IF exc = "None" THEN "cancelled" ELSE "failed"
        /\ Cur.completed_files + Cur.failed_files <= cancel_at + 1
        /\ \A i \in local_files : i <= cancel_at + 1

C4_Witness ==
    /\ pc = "done"
    /\ task.n = 3
    /\ cancel_at = 1
    /\ Cur.completed_files + Cur.failed_files = 2
    /\ local_files = {1, 2}
    /\ Cur.status = "cancelled"

\* C5: while the transfer thread is alive no new worker is started, and a
\* start_transfer call made then ends in the transfer-in-progress error and
\* leaves the cancellation flag, the progress and the worker as they were.
C5_OneTaskAtATime ==
    [][ is_alive =>
          /\ task' = task
          /\ last_start' # last_start =>
                /\ last_start' = "RuntimeError"
                /\ UNCHANGED <<is_cancelled, current_progress, heap, pc, idx,
                               batch_count, published>> ]_vars

C5_Witness ==
    /\ last_start = "RuntimeError"
    /\ pc = "pull"
    /\ idx = 2
    /\ ~is_cancelled

\* C6: the status of a TransferProgress only ever moves from pending to
\* in_progress and from in_progress to completed, failed or cancelled; a
\* terminal status never changes again, whatever is requested later.
C6_StatusTransitions ==
    [][ \A t \in DOMAIN heap :
          /\ t \in DOMAIN heap'
          /\ \/ heap'[t].status = heap[t].status
             \/ heap[t].status = "pending" /\ heap'[t].status = "in_progress"
             \/ heap[t].status = "in_progress" /\ heap'[t].status \in Terminal ]_vars

C6_Witness ==
    /\ pc = "done"
    /\ is_cancelled
    /\ Cur.status = "completed"

\* C7: every started task reaches a terminal status, and its final progress
\* callback delivers that status with the failure count.
C7_TerminalStatusDelivered ==
    (pc = "init") ~>
        (/\ pc = "done"
         /\ Cur.status \in Terminal
         /\ published # <<>>
         /\ Last(published) = Snapshot(task.id))

C7_Witness ==
    /\ pc = "done"
    /\ Cur.status = "failed"
    /\ Cur.failed_files >= 1
    /\ Last(published).status = "failed"
    /\ Last(published).failed_files = Cur.failed_files

\* C8: one progress callback per processed photo, succeeded or failed, and one
\* more at the end: a finished task that processed m photos made m + 1
\* callbacks, the last with the terminal status and no earlier one with it.
C8_OnePublicationPerAsset ==
    /\ pc \in {"init", "open", "loop", "verify", "sleep", "reconnect", "close", "status",
               "except", "final"} => Len(published) = Cardinality(Processed)
    /\ pc \in {"delete", "publish"} => Len(published) = Cardinality(Processed) - 1
    /\ pc = "done" =>
          /\ Len(published) = Cardinality(Processed) + 1
          /\ Last(published).status \in Terminal
          /\ \A k \in 1..(Len(published) - 1) : published[k].status = "in_progress"

C8_Witness ==
    /\ pc = "done"
    /\ Cardinality(PullOk) = 1
    /\ Cardinality(PullFailed) = 2
    /\ Len(published) = 4

\* C9: the values a subscriber observes have non-decreasing completed_files +
\* failed_files, and each observation that is not terminal has a sum exactly
\* one greater than the observation before it.
SeenSum(k) == ui_seen[k].completed_files + ui_seen[k].failed_files

C9_ObservedInOrderNoDuplicates ==
    \A k \in 2..Len(ui_seen) :
        /\ SeenSum(k) >= SeenSum(k - 1)
        /\ ui_seen[k].status \notin Terminal => SeenSum(k) = SeenSum(k - 1) + 1
\* C10: after any sequence of year and month clicks on a fresh inventory, a
\* year is marked selected exactly when every one of its months is.
C10_YearIffAllMonths ==
    \A y \in DOMAIN year_stats :
        year_stats[y].selected <=> AllMonthsSelected(year_stats[y])

C10_Witness ==
    \E y \in DOMAIN year_stats :
        /\ Cardinality(DOMAIN year_stats[y].months) = 2
        /\ ~year_stats[y].selected
        /\ \E m \in DOMAIN year_stats[y].months : year_stats[y].months[m].selected
        /\ \E y2 \in DOMAIN year_stats : y2 # y /\ year_stats[y2].selected

\* C11: get_selected_photos returns, for every year, all photos of the year
\* when the year is marked selected and otherwise exactly the photos of its
\* months marked selected; no photo of an unselected month of an unselected
\* year is returned, and no photo is returned twice.
Returned == {selected_photos[i] : i \in 1..Len(selected_photos)}
OfYear(y) == {all_photos[k] : k \in {j \in 1..Len(all_photos) : all_photos[j].year = y}}
OfMonth(y, m) == {p \in OfYear(y) : p.month = m}

C11_SelectedAssets ==
    last_click.kind = "export" =>
        /\ \A i, j \in 1..Len(selected_photos) :
              i # j => selected_photos[i] # selected_photos[j]
        /\ Returned \subseteq UNION {OfYear(y) : y \in DOMAIN year_stats}
        /\ \A y \in DOMAIN year_stats :
              Returned \cap OfYear(y) =
                 IF year_stats[y].selected THEN OfYear(y)
                 ELSE UNION {OfMonth(y, m) :
                        m \in {k \in DOMAIN year_stats[y].months :
                                 year_stats[y].months[k].selected}}

C11_Witness ==
    /\ last_click.kind = "export"
    /\ Len(selected_photos) = 2
    /\ \E y1, y2 \in DOMAIN year_stats :
          /\ year_stats[y1].selected
          /\ ~year_stats[y2].selected
          /\ \E m1, m2 \in DOMAIN year_stats[y2].months :
                /\ year_stats[y2].months[m1].selected
                /\ ~year_stats[y2].months[m2].selected

\* C12: a click on a year negates the year's flag and sets the flag of every
\* month of that year to the new value, whatever the months' flags were; the
\* flags of every other year and of its months are unchanged.
C12_YearTogglePropagates ==
    last_click.kind = "year" =>
        LET y == last_click.year
            before == last_click.before
        IN  /\ DOMAIN year_stats = DOMAIN before
            /\ year_stats[y].selected = ~before[y].selected
            /\ DOMAIN year_stats[y].months = DOMAIN before[y].months
            /\ \A m \in DOMAIN year_stats[y].months :
                  year_stats[y].months[m].selected = year_stats[y].selected
            /\ \A y2 \in DOMAIN year_stats \ {y} : year_stats[y2] = before[y2]

C12_Witness ==
    /\ last_click.kind = "year"
    /\ LET y == last_click.year
           before == last_click.before
       IN  /\ \E m1, m2 \in DOMAIN before[y].months :
                 before[y].months[m1].selected /\ ~before[y].months[m2].selected
           /\ AllMonthsSelected(year_stats[y])
           /\ \E y2 \in DOMAIN year_stats \ {y} : year_stats[y2].selected

\* C13: a click on a month flips that month's flag only: every other month of
\* the year and every other year with its months keep their flags, and the
\* flag of the month's year becomes the AND over its months.
C13_MonthToggleIsLocal ==
    last_click.kind = "month" =>
        LET y == last_click.year
            m == last_click.month
            before == last_click.before
        IN  /\ DOMAIN year_stats = DOMAIN before
            /\ DOMAIN year_stats[y].months = DOMAIN before[y].months
            /\ year_stats[y].months[m].selected = ~before[y].months[m].selected
            /\ \A m2 \in DOMAIN year_stats[y].months \ {m} :
                  year_stats[y].months[m2] = before[y].months[m2]
            /\ \A y2 \in DOMAIN year_stats \ {y} : year_stats[y2] = before[y2]
            /\ year_stats[y].selected = AllMonthsSelected(year_stats[y])

C13_Witness ==
    /\ last_click.kind = "month"
    /\ LET y == last_click.year
           m == last_click.month
           before == last_click.before
       IN  /\ ~before[y].months[m].selected
           /\ \E m2 \in DOMAIN before[y].months \ {m} : before[y].months[m2].selected
           /\ ~before[y].selected
           /\ year_stats[y].selected
           /\ \E y2 \in DOMAIN year_stats \ {y} : ~year_stats[y2].selected

\* C14: the inventory built from any photo sequence conserves counts and
\* bytes: each month's photo_count and total_size are the length and the size
\* sum of its photo list, each year's are the sums over its months, and the
\* month totals of the whole inventory add up to the sizes of the photos found.
RECURSIVE SumOver(_, _)
SumOver(f, S) ==
    IF S = {} THEN 0
    ELSE LET x == CHOOSE e \in S : TRUE IN f[x] + SumOver(f, S \ {x})

MonthCounts(y) == [m \in DOMAIN year_stats[y].months |-> year_stats[y].months[m].photo_count]
MonthTotals(y) == [m \in DOMAIN year_stats[y].months |-> year_stats[y].months[m].total_size]
YearMonthTotals == [y \in DOMAIN year_stats |-> SumOver(MonthTotals(y), DOMAIN year_stats[y].months)]
FoundSizes == [k \in 1..Len(all_photos) |-> all_photos[k].size]

C14_CountsAndBytesConserved ==
    /\ \A y \in DOMAIN year_stats :
          /\ \A m \in DOMAIN year_stats[y].months :
                /\ year_stats[y].months[m].photo_count = Len(year_stats[y].months[m].photos)
                /\ year_stats[y].months[m].total_size =
                      SumOver([k \in 1..Len(year_stats[y].months[m].photos) |->
                                  year_stats[y].months[m].photos[k].size],
                              1..Len(year_stats[y].months[m].photos))
          /\ year_stats[y].photo_count = SumOver(MonthCounts(y), DOMAIN year_stats[y].months)
          /\ year_stats[y].total_size = SumOver(MonthTotals(y), DOMAIN year_stats[y].months)
    /\ SumOver(YearMonthTotals, DOMAIN year_stats) = SumOver(FoundSizes, 1..Len(all_photos))

C14_Witness ==
    /\ Len(all_photos) = 3
    /\ \E y \in DOMAIN year_stats :
          /\ Cardinality(DOMAIN year_stats[y].months) = 2
          /\ year_stats[y].photo_count = 3
          /\ year_stats[y].total_size = 5

\* C15: every photo found is in exactly one month bucket, the one of the year
\* and month of its creation date; there is one bucket for each (year, month)
\* that occurs and no empty bucket, e.g. two photos of one month and one of
\* another year give {y1: {m: 2}, y2: {m2: 1}}.
InBucket(p, y, m) ==
    Cardinality({k \in 1..Len(year_stats[y].months[m].photos) :
                    year_stats[y].months[m].photos[k] = p})

C15_OneBucketPerAsset ==
    /\ \A i \in 1..Len(all_photos) :
          /\ all_photos[i].year \in DOMAIN year_stats
          /\ all_photos[i].month \in DOMAIN year_stats[all_photos[i].year].months
          /\ \A y \in DOMAIN year_stats : \A m \in DOMAIN year_stats[y].months :
                InBucket(all_photos[i], y, m) =
                   IF y = all_photos[i].year /\ m = all_photos[i].month THEN 1 ELSE 0
    /\ \A y \in DOMAIN year_stats :
          /\ year_stats[y].year = y
          /\ DOMAIN year_stats[y].months # {}
          /\ \A m \in DOMAIN year_stats[y].months :
                /\ year_stats[y].months[m].year = y
                /\ year_stats[y].months[m].month = m
                /\ year_stats[y].months[m].photos # <<>>
    /\ {<<y, m>> \in Years \X Months :
            y \in DOMAIN year_stats /\ m \in DOMAIN year_stats[y].months}
         = {<<all_photos[i].year, all_photos[i].month>> : i \in 1..Len(all_photos)}

C15_Witness ==
    /\ Len(all_photos) = 3
    /\ \E y1, y2 \in DOMAIN year_stats :
          /\ y1 # y2
          /\ DOMAIN year_stats[y1].months = {1}
          /\ year_stats[y1].months[1].photo_count = 2
          /\ DOMAIN year_stats[y2].months = {1}
          /\ year_stats[y2].months[1].photo_count = 1

\* C16: the photos found taken in any other order give an inventory with the
\* same (year, month) buckets and the same counts and byte totals of every
\* month and year.
Reordered(q) == [i \in 1..Len(all_photos) |-> all_photos[q[i]]]

SameTotals(a, b) ==
    /\ DOMAIN a = DOMAIN b
    /\ \A y \in DOMAIN a :
          /\ a[y].photo_count = b[y].photo_count
          /\ a[y].total_size = b[y].total_size
          /\ DOMAIN a[y].months = DOMAIN b[y].months
          /\ \A m \in DOMAIN a[y].months :
                /\ a[y].months[m].photo_count = b[y].months[m].photo_count
                /\ a[y].months[m].total_size = b[y].months[m].total_size

C16_OrderIndependent ==
    \A q \in Permutations(1..Len(all_photos)) :
        SameTotals(analyze_photos(Reordered(q)), year_stats)

C16_Witness ==
    /\ Len(all_photos) = 3
    /\ all_photos[1].year = all_photos[3].year
    /\ all_photos[1].month = all_photos[3].month
    /\ all_photos[1].size # all_photos[3].size
    /\ all_photos[2].year # all_photos[1].year
    /\ last_click.kind = "none"

\* C17: the reconnection loop runs at most RECONNECT_ATTEMPTS rounds, each a
\* sleep followed by one re-check of the link; it returns True at the first
\* successful re-check with no further round, and returns False (the fatal
\* error follows) after exactly RECONNECT_ATTEMPTS failed re-checks.
C17_RecoveryIsBounded ==
    /\ Len(recovery) <= 2 * RECONNECT_ATTEMPTS
    /\ \A k \in 1..Len(recovery) :
          IF k % 2 = 1 THEN recovery[k] = "sleep"
          ELSE recovery[k] \in {"connected", "disconnected"}
    /\ \A k \in 1..(Len(recovery) - 1) : recovery[k] # "connected"
    /\ (recovery # <<>> /\ Last(recovery) = "connected") =>
          pc \notin {"sleep", "reconnect"} /\ exc # Fatal
    /\ exc = Fatal <=>
          /\ Len(recovery) = 2 * RECONNECT_ATTEMPTS
          /\ Last(recovery) = "disconnected"

C17_Witness ==
    /\ pc = "done"
    /\ recovery = <<"sleep", "disconnected", "sleep", "connected">>
    /\ Cur.status = "completed"
    /\ Processed = 1..task.n

\* C18: every health check reads the device list anew: it succeeds exactly
\* when a device is selected and listed at the moment of the call, and fails
\* otherwise, also when the list cannot be read, whatever an earlier call gave.
C18_HealthReadsLiveList ==
    [][ (pc \in {"verify", "reconnect"} /\ pc' # pc) =>
           (pc' = "pull" <=> (current_device /\ usbmux = "listed")) ]_vars

C18_Witness ==
    /\ pc = "pull"
    /\ idx = 3
    /\ health_checks = {2, 3}
    /\ recovery = <<"sleep", "disconnected", "sleep", "disconnected", "sleep", "connected">>

\* C19: the link is checked every batch_size processed photos and not per
\* photo: a health check happens exactly before each photo whose 0-based
\* index is a positive multiple of the batch size, failed photos counting like
\* transferred ones, so a task of N >= 1 photos that runs to the end makes
\* floor((N - 1) / batch_size) health checks.
Boundary(i) == i > 1 /\ (i - 1) % effective_batch_size(task.batch_size) = 0

C19_CheckAtBatchBoundaries ==
    /\ health_checks \subseteq {i \in 1..task.n : Boundary(i)}
    /\ \A i \in Processed : Boundary(i) => i \in health_checks
    /\ (pc = "done" /\ task.n >= 1 /\ Processed = 1..task.n) =>
          Cardinality(health_checks) =
             (task.n - 1) \div effective_batch_size(task.batch_size)

C19_Witness ==
    /\ pc = "done"
    /\ task.n = 3
    /\ task.batch_size = 2
    /\ pull_result[2] = "fail"
    /\ Processed = 1..3
    /\ health_checks = {3}

\* C20: when the pull of a photo succeeds and the delete of its source fails,
\* the photo is counted as failed and the task goes on with the next photo.
RmFailed == rm_issued \cap device_files

C20_DeleteErrorCountedFailed ==
    pc = "done" =>
        /\ Cur.failed_files = Cardinality(PullFailed \cup RmFailed)
        /\ Cur.completed_files = Cardinality(PullOk \ RmFailed)

\* C24: two clicks in a row on the same year give every month of the year
\* its flag of before the first click exactly when the year started uniform,
\* all its months selected or none; from a partly selected year the months
\* are not restored.
Uniform(year_stat) ==
    \/ \A m \in DOMAIN year_stat.months : year_stat.months[m].selected
    \/ \A m \in DOMAIN year_stat.months : ~year_stat.months[m].selected

C24_DoubleYearToggle ==
    (last_click.kind = "year" /\ last_click.twice) =>
        LET y == last_click.year
            origin == last_click.origin
        IN  (\A m \in DOMAIN year_stats[y].months :
                year_stats[y].months[m].selected = origin[y].months[m].selected)
            <=> Uniform(origin[y])

C24_Witness ==
    /\ last_click.kind = "year"
    /\ last_click.twice
    /\ ~Uniform(last_click.origin[last_click.year])
    /\ \A m \in DOMAIN year_stats[last_click.year].months :
          ~year_stats[last_click.year].months[m].selected

\* C25: with a year marked selected and all its months selected,
\* get_selected_photos returns the same photos as on the inventory that has
\* the months of that year selected one by one and the year's mark left off.
YearMarkOff(y) == [year_stats EXCEPT ![y].selected = FALSE]

C25_SelectionEquivalence ==
    last_click.kind = "export" =>
        \A y \in DOMAIN year_stats :
            (year_stats[y].selected /\ AllMonthsSelected(year_stats[y])) =>
                selected_photos = get_selected_photos(YearMarkOff(y), all_photos)

C25_Witness ==
    /\ last_click.kind = "export"
    /\ Len(selected_photos) = 2
    /\ \E y \in DOMAIN year_stats :
          /\ year_stats[y].selected
          /\ Cardinality(DOMAIN year_stats[y].months) = 2
          /\ AllMonthsSelected(year_stats[y])
    /\ \E y \in DOMAIN year_stats : ~year_stats[y].selected

\* C26: within a task the photos are processed in the order given: a photo is
\* pulled or deleted only when every photo before it has been pulled,
\* deleted if due, and counted, and no photo is processed twice.
C26_InOrderOnce ==
    /\ Processed \in {1..k : k \in 0..MaxPhotos}
    /\ Processed \subseteq 1..task.n
    /\ rm_issued \subseteq Processed
    /\ pc = "pull" => Processed = 1..(idx - 1)
    /\ pc \in {"delete", "publish"} => Processed = 1..idx
    /\ pc = "delete" => idx \notin rm_issued
    /\ (task.id # 0 /\ current_progress = task.id) =>
          Cur.completed_files + Cur.failed_files = Cardinality(Processed)

C26_Witness ==
    /\ pc = "delete"
    /\ idx = 3
    /\ rm_issued = {1}
    /\ pull_result[2] = "fail"
    /\ health_checks = {2, 3}
    /\ Cur.completed_files = 2 /\ Cur.failed_files = 1

\* The place the i-th photo of the task is to be written to: the year, then
\* in the year and month layout the month as two digits and its name, then the
\* basename with every character not allowed in a file name made "_".
Dest(i) ==
    LET photo == task.photos[i]
        name == Basename(photo.path)
    IN  [dir |-> [year |-> photo.year,
                  month_dir |-> IF task.year_only THEN [mm |-> 0, name |-> ""]
                                ELSE [mm |-> photo.month,
                                      name |-> month_names[photo.month]]],
         filename |-> [k \in 1..Len(name) |->
                          IF name[k] \in {"<", ">", ":", "\"", "/", "\\", "|", "?", "*"}
                          THEN "_" ELSE name[k]]]

LastPulled(t) == CHOOSE i \in PullOk : Dest(i) = t /\ \A j \in PullOk : Dest(j) = t => j <= i

\* C27: every photo pulled is at <year>/ or <year>/<MM_MonthName>/ under its
\* sanitized basename; a file at that path holds the bytes of the last photo
\* pulled to it, no photo is written under another name, and a file no pull
\* went to is as it was.
C27_LayoutLastPullWins ==
    task.id # 0 =>
        /\ \A i \in PullOk :
              /\ Dest(i) \in DOMAIN local_store
              /\ local_store[Dest(i)] = task.photos[LastPulled(Dest(i))].path
        /\ \A t \in DOMAIN local_store :
              \/ \E i \in PullOk : Dest(i) = t
              \/ t \in DOMAIN OldFile /\ local_store[t] = OldFile[t]

C27_Witness ==
    /\ pc = "done"
    /\ task.year_only
    /\ PullOk = {1, 2}
    /\ task.photos[1].month # task.photos[2].month
    /\ Dest(1) = Dest(2)
    /\ Basename(task.photos[1].path) # Basename(task.photos[2].path)
    /\ local_store[Dest(1)] = task.photos[2].path
    /\ Cardinality(DOMAIN local_store) = 2

\* C28: from the start of a task to its end the inventory is the one the
\* export was started from: buckets, counts, byte totals and selected flags.
C28_InventoryUntouched ==
    (task.id # 0 /\ last_click.kind = "export") =>
        /\ year_stats = last_click.before
        /\ get_selected_photos(year_stats, all_photos) = task.photos

C28_Witness ==
    /\ pc = "done"
    /\ Cur.status = "completed"
    /\ task.n = 2
    /\ rm_issued = {1, 2}
    /\ device_files \cap {1, 2} = {}
    /\ \E y \in DOMAIN year_stats : year_stats[y].selected /\ year_stats[y].photo_count = 2

\* C30: at a terminal status every photo whose device file was deleted has
\* its bytes in a file of the export folder.
C30_NoDataLost ==
    (task.id # 0 /\ current_progress = task.id /\ Cur.status \in Terminal) =>
        \A i \in 1..task.n :
            i \notin device_files =>
                \E t \in DOMAIN local_store : local_store[t] = task.photos[i].path

\* The same for the tasks whose photos go to pairwise different places.
C30_NoLossWithoutCollision ==
    (task.id # 0 /\ current_progress = task.id /\ Cur.status \in Terminal
     /\ \A i, j \in 1..task.n : Dest(i) = Dest(j) => i = j) =>
        \A i \in 1..task.n :
            i \notin device_files =>
                \E t \in DOMAIN local_store : local_store[t] = task.photos[i].path

\* The directory a file is in, and whether the scan gets to list it.
Home(f) == IF f = 1 THEN "/DCIM" ELSE IF f = 2 THEN "/DCIM/100APPLE" ELSE "/Media/DCIM"
Listed(d) ==
    /\ fs.dir[d] = "ok"
    /\ d = "/DCIM/100APPLE" => fs.dir["/DCIM"] = "ok"
Media(f) == lower(fs.file[f].ext) \in PHOTO_EXTENSIONS \cup VIDEO_EXTENSIONS
FoundPaths == {all_photos[i].path : i \in 1..Len(all_photos)}
Bucketed ==
    {f \in 1..MaxAssets :
        \E y \in DOMAIN year_stats : \E m \in DOMAIN year_stats[y].months :
            \E i \in 1..Len(year_stats[y].months[m].photos) :
                year_stats[y].months[m].photos[i].path = f}

\* C21: a scan of a device on which no root can be listed does not end as a
\* completed scan with an inventory.
C21_InaccessibleRootsFail ==
    (last_click.kind = "scan" /\ \A i \in 1..Len(photo_paths) : fs.dir[photo_paths[i]] # "ok")
        => scan_status # "complete"

\* C22: of the files the scan gets to, those returned are the ones with a
\* photo or video suffix in any case and a creation time; a file without a
\* creation time is neither returned nor in a bucket.
C22_RetainedIffMediaWithBirth ==
    scan_status = "complete" =>
        /\ \A f \in 1..MaxAssets :
              (fs.file[f].stat = "ok" /\ Listed(Home(f))) =>
                  (f \in FoundPaths <=> Media(f) /\ fs.file[f].birth)
        /\ \A f \in 1..MaxAssets :
              ~fs.file[f].birth => f \notin FoundPaths /\ f \notin Bucketed
        /\ Bucketed = FoundPaths

C22_Witness ==
    /\ scan_status = "complete"
    /\ \A d \in Dirs : fs.dir[d] = "ok"
    /\ fs.file[2] = [stat |-> "ok", ext |-> ".jpg", birth |-> FALSE]
    /\ fs.file[1] = [stat |-> "ok", ext |-> ".JPG", birth |-> TRUE]
    /\ fs.file[3] = [stat |-> "ok", ext |-> ".txt", birth |-> TRUE]
    /\ FoundPaths = {1}
    /\ Bucketed = {1}

\* C23: whatever fails elsewhere, a file with a media suffix and a creation
\* time whose stat answers and whose directory is listed is returned, and
\* what is returned is nothing else.
C23_ErrorsAreLocal ==
    (last_click.kind = "scan" /\ scan_status = "complete") =>
        \A f \in 1..MaxAssets :
            f \in FoundPaths <=>
                /\ Listed(Home(f))
                /\ fs.file[f].stat = "ok"
                /\ Media(f)
                /\ fs.file[f].birth

C23_Witness ==
    /\ scan_status = "complete"
    /\ fs.dir["/DCIM"] = "ok"
    /\ fs.dir["/DCIM/100APPLE"] = "staterr"
    /\ fs.dir["/Media/DCIM"] = "staterr"
    /\ \A f \in 1..MaxAssets : fs.file[f].stat = "ok" /\ Media(f) /\ fs.file[f].birth
    /\ FoundPaths = {1}

\* C29: after a scan the inventory has exactly the photos that scan found,
\* a year and a month only where one of them is, with the counts of the
\* photos found, and no year or month is marked selected.
C29_InventoryReplaced ==
    (last_click.kind = "scan" /\ scan_status = "complete") =>
        /\ Bucketed = FoundPaths
        /\ \A y \in DOMAIN year_stats :
              /\ ~year_stats[y].selected
              /\ \E i \in 1..Len(all_photos) : all_photos[i].year = y
              /\ year_stats[y].photo_count =
                     Cardinality({i \in 1..Len(all_photos) : all_photos[i].year = y})
              /\ \A m \in DOMAIN year_stats[y].months :
                    /\ ~year_stats[y].months[m].selected
                    /\ year_stats[y].months[m].photo_count =
                           Cardinality({i \in 1..Len(all_photos) :
                                           all_photos[i].year = y /\ all_photos[i].month = m})
                    /\ year_stats[y].months[m].photo_count > 0

C29_Witness ==
    /\ last_click.kind = "scan"
    /\ scan_status = "complete"
    /\ DOMAIN last_click.before = {1, 2}
    /\ last_click.before[1].selected
    /\ last_click.before[2].selected
    /\ last_click.before[1].photo_count = 2
    /\ DOMAIN year_stats = {1}
    /\ year_stats[1].photo_count = 1
    /\ FoundPaths = {3}

RECURSIVE SizeOver(_)
SizeOver(S) ==
    IF S = {} THEN 0
    ELSE LET i == CHOOSE j \in S : TRUE IN task.photos[i].size + SizeOver(S \ {i})

\* C31: once the progress of the task exists, completed_files is the number
\* of photos pulled, failed_files the number of photos whose pull failed,
\* their sum the number of photos processed and at most total_files;
\* transferred_size is the size sum of the photos pulled and at most
\* total_size; with status completed every photo has been processed.
C31_CountersConsistent ==
    (task.id # 0 /\ current_progress = task.id) =>
        /\ Cur.total_files = task.n
        /\ Cur.total_size = SizeOver(1..task.n)
        /\ Cur.completed_files = Cardinality(PullOk)
        /\ Cur.failed_files = Cardinality(PullFailed)
        /\ Cur.completed_files + Cur.failed_files = Cardinality(Processed)
        /\ Cur.completed_files + Cur.failed_files <= Cur.total_files
        /\ Cur.transferred_size = SizeOver(PullOk)
        /\ Cur.transferred_size <= Cur.total_size
        /\ Cur.status = "completed" =>
              Cur.completed_files + Cur.failed_files = Cur.total_files

C31_Witness ==
    /\ pc = "done"
    /\ Cur.status = "completed"
    /\ Cur.total_files = 3
    /\ Cur.completed_files = 2
    /\ Cur.failed_files = 1
    /\ pull_result[2] = "fail"
    /\ Cur.transferred_size = 4
    /\ Cur.total_size = 6

\* C32: a task with photos whose status is cancelled has left at least one
\* of them unprocessed.
C32_CancelledOnlyIfStoppedEarly ==
    (task.id # 0 /\ current_progress = task.id /\ task.n > 0
     /\ Cur.status = "cancelled") =>
        Cardinality(Processed) < task.n

\* get_afc_service raised before any photo was looked at.
OpenFailed ==
    /\ exc \in {"No device connected", "AFC service error"}
    /\ afc = "none"
    /\ Processed = {}

\* The health check before photo idx failed and so did every round of the
\* reconnection after it.
BoundaryFailed ==
    /\ exc = Fatal
    /\ verify_failed
    /\ idx \in health_checks
    /\ Len(recovery) = 2 * RECONNECT_ATTEMPTS
    /\ \A k \in 1..RECONNECT_ATTEMPTS :
          recovery[2 * k - 1] = "sleep" /\ recovery[2 * k] = "disconnected"

\* C33: the status is failed only after a failed opening of the connection
\* or a failed health check with all its reconnection rounds failed; a task
\* that had neither and was not cancelled processes every photo and ends
\* completed, the photos whose pull failed counted in failed_files.
C33_FailedOnlyAtOpenOrBoundary ==
    (task.id # 0 /\ current_progress = task.id) =>
        /\ Cur.status = "failed" => OpenFailed \/ BoundaryFailed
        /\ (pc = "done" /\ ~OpenFailed /\ ~BoundaryFailed /\ ~is_cancelled) =>
              /\ Cur.status = "completed"
              /\ Processed = 1..task.n
              /\ Cur.failed_files = Cardinality(PullFailed)

C33_Witness ==
    /\ pc = "done"
    /\ Cur.status = "completed"
    /\ pull_result = <<"fail", "ok", "ok">>
    /\ task.batch_size = 1
    /\ health_checks = {2, 3}
    /\ ~verify_failed
    /\ Cur.failed_files = 1

\* C34: while a transfer is active get_current_progress gives the
\* TransferProgress of the task that is running, not None and not the
\* object of an earlier task.
C34_ActiveProgressIsCurrent ==
    is_transfer_active =>
        /\ get_current_progress # 0
        /\ get_current_progress = task.id

\* The part of C34 about earlier tasks alone.
C34_NeverStale ==
    (is_transfer_active /\ get_current_progress # 0) => get_current_progress = task.id

\* C35: a task ends cancelled only if cancel was requested after its start;
\* the flag is clear while the worker has not run, whatever was requested
\* before the start.
C35_OldCancelDoesNotCarryOver ==
    /\ (task.id # 0 /\ current_progress = task.id /\ Cur.status = "cancelled") =>
          cancel_at # -1
    /\ (is_alive /\ pc # "final" /\ cancel_at = -1) => ~is_cancelled

C35_Witness ==
    /\ task.id = 2
    /\ pc = "done"
    /\ 1 \in DOMAIN heap /\ heap[1].status = "cancelled"
    /\ current_progress = 2
    /\ Cur.status = "completed"
    /\ cancel_at = -1
    /\ Cur.completed_files = 2

\* C36: the connection is closed from the open state only, and it is closed
\* (or was never opened, get_afc_service having raised) whenever the worker
\* is past the with block, so before any terminal progress is published.
C36_ClosedOnceBeforeTerminal ==
    /\ pc = "close" => afc = "open"
    /\ afc = "open" =>
          pc \in {"loop", "verify", "sleep", "reconnect", "pull", "delete",
                  "publish", "close"}
    /\ pc \in {"status", "except", "final", "done"} =>
          \/ afc = "closed"
          \/ afc = "none" /\ exc \in {"No device connected", "AFC service error"}
    /\ \A k \in 1..Len(published) :
          published[k].status \in Terminal => afc # "open"

C36_Witness ==
    /\ pc = "done"
    /\ afc = "closed"
    /\ exc = Fatal
    /\ Len(published) > 0
    /\ Last(published).status = "failed"
    /\ Cardinality(PullOk) = 2

\* The assets _start_export would hand to the transfer.
ToTransfer == get_selected_photos(year_stats, all_photos)

\* C37: in every state reached by year and month clicks, the count of the
\* selection tree, the sum of the counts of the months marked selected, is
\* the number of assets get_selected_photos returns, and the export button is
\* enabled exactly when there is at least one asset to transfer.
C37_ButtonFollowsSelection ==
    /\ get_selected_count(year_stats) = Len(ToTransfer)
    /\ export_btn = "normal" <=> Len(ToTransfer) > 0

\* The part of C37 on the two counts alone.
C37_CountsAgree == get_selected_count(year_stats) = Len(ToTransfer)

\* The part of C37 on the button in the states a click on the tree leaves.
C37_ButtonAfterClick ==
    last_click.kind \in {"year", "month"} =>
        (export_btn = "normal" <=> Len(ToTransfer) > 0)

\* The entries of sequence q that are of value v.
Times(q, v) == Cardinality({i \in 1..Len(q) : q[i] = v})

\* The completion handlers queued for the task and not run yet.
QueuedCompletions ==
    Cardinality({i \in 1..Len(ui_queue) :
                    ui_queue[i] = [kind |-> "complete", ref |-> task.id]})

\* The statistics after the one export of the task.
OneExport ==
    [total_files_exported |-> Cur.completed_files,
     total_size_exported |-> Cur.transferred_size, total_exports |-> 1]

\* C38: the completion handling runs once per task: none is queued or run
\* before the worker ends, and from then on exactly one is queued or has run,
\* never both; the statistics are those of the start until the handler has
\* run for a task that ended completed with a completed file, and from then
\* on they are the start's plus that task's completed_files and
\* transferred_size, counted as one export; a task that ended failed or
\* cancelled leaves them as they were.
C38_CompletionHandledOnce ==
    /\ task.id # 0 =>
          Times(completions, task.id) + QueuedCompletions = (IF pc = "done" THEN 1 ELSE 0)
    /\ Len(completions) <= task.id
    /\ export_stats =
          IF /\ task.id # 0
             /\ Times(completions, task.id) = 1
             /\ Cur.status = "completed"
             /\ Cur.completed_files > 0
          THEN OneExport
          ELSE NoStats

C38_Witness ==
    /\ pc = "done"
    /\ ui_queue = <<>>
    /\ completions = <<task.id>>
    /\ Cur.status = "completed"
    /\ Cur.completed_files = 2
    /\ Cur.failed_files = 1
    /\ export_stats = [total_files_exported |-> 2, total_size_exported |-> 4,
                       total_exports |-> 1]

\* A task that was cancelled after a completed file, its handler run.
C38_CancelledHandled ==
    /\ completions = <<task.id>>
    /\ Cur.status = "cancelled"
    /\ Cur.completed_files > 0
    /\ export_stats = NoStats

====
